---- MODULE Spec2Model ----
(***************************************************************************)
(* Key management of the certificate API: the authenticate middleware,    *)
(* the two createKey handler revisions kept in createKey.js and the       *)
(* manageKey handler (PUT = update, DELETE = deactivate), over the        *)
(* Firestore "keys" collection.                                            *)
(*                                                                         *)
(* Strings that the code transforms (descriptions, key ids) are sequences *)
(* of one-character strings, so that trim(), replace(/\s+/g,'_'),         *)
(* toLowerCase() and the id derivation are computed, not assumed.         *)
(***************************************************************************)
EXTENDS Integers, Sequences, FiniteSets, TLC

VARIABLES rev, keys, certs, req, resp, auth, nreq, inflight, ui

vars == <<rev, keys, certs, req, resp, auth, nreq, inflight, ui>>

(* ------------------------------ bounds -------------------------------- *)

\* Number of requests handled in one behaviour.
MaxRequests == 2

\* Number of createKey invocations that run at the same time.
MaxClients == 2

\* Number of verifications the page sends to the server in one behaviour.
MaxVerifications == 3

\* Hex digits kept from the digest (the code keeps 16; see generateKeyId).
HashHexLen == 2

(* ------------------------- string primitives -------------------------- *)

Alphabet ==
  << "a","b","c","d","e","f","g","h","i","j","k","l","m","n","o","p","q",
     "r","s","t","u","v","w","x","y","z","0","1","2","3","4","5","6","7",
     "8","9","A","B","C"," ","_","-" >>

HexDigits == << "0","1","2","3","4","5","6","7","8","9","a","b","c","d","e","f" >>

CharCode(c) == CHOOSE i \in 1..Len(Alphabet) : Alphabet[i] = c

\* \s of the regular expressions and the whitespace String.prototype.trim strips
IsSpace(c) == c = " "

RECURSIVE TrimLeft(_)
TrimLeft(s) ==
  IF s = <<>> THEN <<>>
  ELSE IF IsSpace(Head(s)) THEN TrimLeft(Tail(s)) ELSE s

RECURSIVE TrimRight(_)
TrimRight(s) ==
  IF s = <<>> THEN <<>>
  ELSE IF IsSpace(s[Len(s)]) THEN TrimRight(SubSeq(s, 1, Len(s) - 1)) ELSE s

\* String.prototype.trim
trim(s) == TrimRight(TrimLeft(s))

\* String.prototype.toLowerCase on one character
LowerChar(c) ==
  CASE c = "A" -> "a"
    [] c = "B" -> "b"
    [] c = "C" -> "c"
    [] OTHER   -> c

toLowerCase(s) == [i \in 1..Len(s) |-> LowerChar(s[i])]

\* s.replace(/\s+/g, '_'): every maximal run of whitespace becomes one '_'
RECURSIVE ReplaceSpaces(_)
ReplaceSpaces(s) ==
  IF s = <<>> THEN <<>>
  ELSE IF IsSpace(Head(s))
       THEN <<"_">> \o ReplaceSpaces(TrimLeft(s))
       ELSE <<Head(s)>> \o ReplaceSpaces(Tail(s))

\* Stand-in for sha256(...).digest('hex'): a polynomial hash of the
\* characters, rendered as HashHexLen hexadecimal digits.
RECURSIVE PolyHash(_, _)
PolyHash(s, acc) ==
  IF s = <<>> THEN acc
  ELSE PolyHash(Tail(s), (acc * 31 + CharCode(Head(s))) % (16 ^ HashHexLen))

RECURSIVE HexString(_, _)
HexString(n, digits) ==
  IF digits = 0 THEN <<>>
  ELSE HexString(n \div 16, digits - 1) \o <<HexDigits[(n % 16) + 1]>>

Salt == << "n","e","p","e","m","c","e","r","t" >>

HexDigest(s) == HexString(PolyHash(s, 7), HashHexLen)

\* generateKeyId(username)
generateKeyId(username) ==
  toLowerCase(ReplaceSpaces(username)) \o <<"_">> \o HexDigest(username \o Salt)

(* --------------------------- program constants ------------------------ *)

\* createKey.js:58 and :374
BOOTSTRAP_KEY_ID ==
  << "n","e","p","e","m","c","e","r","t","-","b","o","o","t","s","t","r","a","p" >>

\* createKey.js:59 and :375 (value of the environment variable or its fallback)
BOOTSTRAP_SECRET == "bootstrap-secret"

\* allowedRoles with a role that does not exist
allowedRoles_WithSuperadmin == {"admin", "issuer", "reader", "superadmin"}

\* createKey.js:223, :532 and manageKey allowedRoles
allowedRoles == {"admin", "issuer", "reader"}

\* admin.firestore.FieldValue.serverTimestamp()
serverTimestamp == "server-timestamp"

\* The two revisions of the createKey handler kept in createKey.js:
\* "r1" is the handler of lines 157-314, "r2" the handler of lines 497-591.
Revisions == {"r1", "r2"}

(* ------------------------------ JWT library --------------------------- *)

\* A bearer token is what its issuer made it: a payload, the secret it was
\* signed with and whether its exp lies in the past. A string that is not a
\* JWS at all has wellFormed = FALSE.
Has(f, x) == x \in DOMAIN f

\* jwt.decode(token, {complete: true}): no signature check; null on garbage
jwtDecode(token) ==
  IF token.wellFormed THEN [isNull |-> FALSE, payload |-> token.payload]
  ELSE [isNull |-> TRUE, payload |-> << >>]

\* jwt.verify(token, secret): the name of the error thrown, or "ok".
\* The signature is checked before the expiry.
jwtVerify(token, secret) ==
  IF ~token.wellFormed THEN "JsonWebTokenError"
  ELSE IF token.sig # secret THEN "JsonWebTokenError"
  ELSE IF token.expired THEN "TokenExpiredError"
  ELSE "ok"

\* authHeader.split(' ')[1]
HeaderToken(hdr) == hdr.token

(* ------------------------------ responses ----------------------------- *)

AuthError(status, message) ==
  [authenticated |-> FALSE, statusCode |-> status, body |-> [message |-> message]]

AuthOk(role, keyId) == [authenticated |-> TRUE, role |-> role, keyId |-> keyId]

Response(status, message) == [statusCode |-> status, body |-> [message |-> message]]

MsgMissingHeader == "Authentication required: Missing or invalid Authorization header"
MsgNoKeyId       == "Bad Request: JWT payload missing keyId"
MsgBadBootstrap  == "Authentication failed: Invalid bootstrap token"
MsgKeyNotFound   == "Forbidden: API key not found in \"keys\" collection"
MsgNoSecret      == "Internal Server Error: Key document missing secret"
MsgExpired       == "Authentication failed: JWT expired"
MsgBadSignature  == "Authentication failed: Invalid JWT signature or malformed token"
MsgAuthInternal  == "Internal Server Error during authentication"
MsgNotActive     == "Forbidden: API key is not active"
MsgRoleDenied(role) == "Forbidden: Role \"" \o role \o "\" not authorized for this operation"

\* AuthenticateStored without the isActive test
AuthenticateStored_NoActiveTest(store, token, keyId, requiredRoles, readFails) ==
  IF readFails THEN AuthError(500, MsgAuthInternal)
  ELSE IF ~Has(store, keyId) THEN AuthError(403, MsgKeyNotFound)
  ELSE LET keyData == store[keyId] IN
    IF ~Has(keyData, "secret") THEN AuthError(500, MsgNoSecret)
    ELSE LET verdict == jwtVerify(token, keyData.secret) IN
      IF verdict = "TokenExpiredError" THEN AuthError(401, MsgExpired)
      ELSE IF verdict = "JsonWebTokenError" THEN AuthError(401, MsgBadSignature)
      ELSE IF keyData.role \notin requiredRoles
           THEN AuthError(403, MsgRoleDenied(keyData.role))
      ELSE AuthOk(keyData.role, keyId)

\* AuthenticateStored answering 404 for a key that is not in the collection
AuthenticateStored_NotFound404(store, token, keyId, requiredRoles, readFails) ==
  IF readFails THEN AuthError(500, MsgAuthInternal)
  ELSE IF ~Has(store, keyId) THEN AuthError(404, MsgKeyNotFound)
  ELSE LET keyData == store[keyId] IN
    IF ~Has(keyData, "secret") THEN AuthError(500, MsgNoSecret)
    ELSE LET verdict == jwtVerify(token, keyData.secret) IN
      IF verdict = "TokenExpiredError" THEN AuthError(401, MsgExpired)
      ELSE IF verdict = "JsonWebTokenError" THEN AuthError(401, MsgBadSignature)
      ELSE IF ~keyData.isActive THEN AuthError(403, MsgNotActive)
      ELSE IF keyData.role \notin requiredRoles
           THEN AuthError(403, MsgRoleDenied(keyData.role))
      ELSE AuthOk(keyData.role, keyId)

\* Steps 3..9 of authenticate, shared verbatim by its three copies:
\* store read, secret presence, jwt.verify, isActive, role.
\* AuthenticateStored taking the role from the token's payload when the
\* payload carries one
AuthenticateStored_TrustsClaim(store, token, keyId, requiredRoles, readFails) ==
  IF readFails THEN AuthError(500, MsgAuthInternal)
  ELSE IF ~Has(store, keyId) THEN AuthError(403, MsgKeyNotFound)
  ELSE LET keyData == store[keyId]
           role == IF Has(token.payload, "role") THEN token.payload.role ELSE keyData.role
       IN
    IF ~Has(keyData, "secret") THEN AuthError(500, MsgNoSecret)
    ELSE LET verdict == jwtVerify(token, keyData.secret) IN
      IF verdict = "TokenExpiredError" THEN AuthError(401, MsgExpired)
      ELSE IF verdict = "JsonWebTokenError" THEN AuthError(401, MsgBadSignature)
      ELSE IF ~keyData.isActive THEN AuthError(403, MsgNotActive)
      ELSE IF role \notin requiredRoles
           THEN AuthError(403, MsgRoleDenied(role))
      ELSE AuthOk(role, keyId)

AuthenticateStored(store, token, keyId, requiredRoles, readFails) ==
  IF readFails THEN AuthError(500, MsgAuthInternal)
  ELSE IF ~Has(store, keyId) THEN AuthError(403, MsgKeyNotFound)
  ELSE LET keyData == store[keyId] IN
    IF ~Has(keyData, "secret") THEN AuthError(500, MsgNoSecret)
    ELSE LET verdict == jwtVerify(token, keyData.secret) IN
      IF verdict = "TokenExpiredError" THEN AuthError(401, MsgExpired)
      ELSE IF verdict = "JsonWebTokenError" THEN AuthError(401, MsgBadSignature)
      ELSE IF ~keyData.isActive THEN AuthError(403, MsgNotActive)
      ELSE IF keyData.role \notin requiredRoles
           THEN AuthError(403, MsgRoleDenied(keyData.role))
      ELSE AuthOk(keyData.role, keyId)

\* Decode and bootstrap branch, then the stored-key steps.
AuthenticateToken(store, token, requiredRoles, allowBootstrap, readFails) ==
  LET decodedHeader == jwtDecode(token) IN
  IF decodedHeader.isNull \/ ~Has(decodedHeader.payload, "keyId")
     \/ decodedHeader.payload.keyId = << >>
  THEN AuthError(400, MsgNoKeyId)
  ELSE LET keyId == decodedHeader.payload.keyId IN
    IF allowBootstrap /\ keyId = BOOTSTRAP_KEY_ID
    THEN IF jwtVerify(token, BOOTSTRAP_SECRET) = "ok"
         THEN AuthOk("bootstrap", BOOTSTRAP_KEY_ID)
         ELSE AuthError(401, MsgBadBootstrap)
    ELSE AuthenticateStored(store, token, keyId, requiredRoles, readFails)

\* authenticate of createKey.js:62 (revision r1): the header must start
\* with 'Bearer '
authenticate_r1(store, hdr, requiredRoles, allowBootstrap, readFails) ==
  IF hdr.scheme # "Bearer" THEN AuthError(401, MsgMissingHeader)
  ELSE AuthenticateToken(store, HeaderToken(hdr), requiredRoles, allowBootstrap, readFails)

\* authenticate of createKey.js:403 (revision r2): any non-empty header passes
\* the first test
authenticate_r2(store, hdr, requiredRoles, allowBootstrap, readFails) ==
  IF hdr.scheme = "none" THEN AuthError(401, MsgMissingHeader)
  ELSE AuthenticateToken(store, HeaderToken(hdr), requiredRoles, allowBootstrap, readFails)

\* authenticate_mk ignoring the roles its caller requires
authenticate_mk_AnyRole(store, hdr, requiredRoles, readFails) ==
  IF hdr.scheme # "Bearer" THEN AuthError(401, MsgMissingHeader)
  ELSE AuthenticateToken(store, HeaderToken(hdr), allowedRoles, FALSE, readFails)

\* authenticate of manageKey: 'Bearer ' test, no bootstrap branch
authenticate_mk(store, hdr, requiredRoles, readFails) ==
  IF hdr.scheme # "Bearer" THEN AuthError(401, MsgMissingHeader)
  ELSE AuthenticateToken(store, HeaderToken(hdr), requiredRoles, FALSE, readFails)

(* ------------------------------ the store ----------------------------- *)

\* A document of the "keys" collection is a function from field names to
\* values; the collection is a function from document ids to documents.

\* whereDescription matching the document id instead of the field
whereDescription_ById(store, value) == {id \in DOMAIN store : id = value}

\* db.collection('keys').where('description', '==', value).get()
whereDescription(store, value) ==
  {id \in DOMAIN store : Has(store[id], "description") /\ store[id].description = value}

\* docRef.set(data) on a new id, and collection.add(data) with the id chosen
setDoc(store, id, data) ==
  [k \in DOMAIN store \cup {id} |-> IF k = id THEN data ELSE store[k]]

\* update replacing the whole document by the given fields
updateDoc_Overwrite(store, id, fields) ==
  [k \in DOMAIN store |-> IF k = id THEN fields ELSE store[k]]

\* docRef.update(fields): only the given fields are written
updateDoc(store, id, fields) ==
  [k \in DOMAIN store |->
     IF k = id
     THEN [f \in DOMAIN store[k] \cup DOMAIN fields |->
             IF f \in DOMAIN fields THEN fields[f] ELSE store[k][f]]
     ELSE store[k]]

\* Restriction of a JSON object to some of its fields
Pick(obj, fields) == [f \in DOMAIN obj \cap fields |-> obj[f]]

\* { ...a, ...b }
Spread(a, b) == [f \in DOMAIN a \cup DOMAIN b |-> IF f \in DOMAIN b THEN b[f] ELSE a[f]]

\* The identifier Firestore generates for add(): fresh for every request
AutoId(n) == << "d","o","c", HexDigits[n + 1] >>

\* crypto.randomBytes(...): a value not produced before
RandomSecret(n) == "random-" \o ToString(n)

\* The characters of a role name (generateKeyId is applied to the role when
\* the request has no description)
RoleChars(role) ==
  CASE role = "admin"  -> << "a","d","m","i","n" >>
    [] role = "issuer" -> << "i","s","s","u","e","r" >>
    [] role = "reader" -> << "r","e","a","d","e","r" >>

NoAuth == [called |-> FALSE]

AuthCall(result, requiredRoles, allowBootstrap) ==
  [called |-> TRUE, result |-> result, requiredRoles |-> requiredRoles,
   allowBootstrap |-> allowBootstrap]

\* What a handler run yields: the HTTP response, the collection afterwards
\* and the authenticate call it made
Outcome(response, store, authCall) ==
  [response |-> response, store |-> store, auth |-> authCall]

AuthFailure(authResult) ==
  [statusCode |-> authResult.statusCode, body |-> authResult.body]

(* ------------------- createKey, revision r1 (157-314) ----------------- *)

MsgInvalidJson   == "Invalid JSON body"
MsgMissingData   == "Missing required key data: role, isActive and description are mandatory"
MsgInvalidRoleR1 == "Invalid role provided. Allowed roles are: admin, issuer, reader"
MsgInvalidRoleR2 == "Invalid role provided"
MsgDescription   == "Description must be a string with at least 3 characters"
MsgDupDescription == "A key with this description already exists"
MsgCreated       == "Key created successfully"
MsgInternal      == "Internal Server Error"
MsgMethodNotAllowedPlain == "Method Not Allowed"

\* listKeys_r1 returning each document whole
listKeys_r1_WholeDocuments(store, event) ==
  LET authResult == authenticate_r1(store, event.headers, {"admin"}, FALSE, event.storeFails = "auth")
      call == AuthCall(authResult, {"admin"}, FALSE)
  IN IF ~authResult.authenticated
     THEN Outcome(AuthFailure(authResult), store, call)
     ELSE IF event.storeFails = "lookup"
     THEN Outcome(Response(500, MsgInternal), store, call)
     ELSE Outcome(
            [statusCode |-> 200,
             body |-> [keys |-> {Spread([id |-> id], store[id]) : id \in DOMAIN store},
                       total |-> Cardinality(DOMAIN store)]],
            store, call)

\* GET branch: list the keys (admin only)
listKeys_r1(store, event) ==
  LET authResult == authenticate_r1(store, event.headers, {"admin"}, FALSE, event.storeFails = "auth")
      call == AuthCall(authResult, {"admin"}, FALSE)
  IN IF ~authResult.authenticated
     THEN Outcome(AuthFailure(authResult), store, call)
     ELSE IF event.storeFails = "lookup"
     THEN Outcome(Response(500, MsgInternal), store, call)
     ELSE Outcome(
            [statusCode |-> 200,
             body |-> [keys |-> {Spread([id |-> id],
                                        Pick(store[id], {"description", "role", "isActive",
                                                         "createdAt", "updatedAt"}))
                                 : id \in DOMAIN store},
                       total |-> Cardinality(DOMAIN store)]],
            store, call)

\* The authorization step of r1, which depends on the requested role
authorizeCreate_r1(store, event, keyData) ==
  IF keyData.role = "reader"
  THEN IF event.headers.scheme = "Bearer"
       THEN AuthCall(authenticate_r1(store, event.headers, {"admin", "issuer"}, TRUE, event.storeFails = "auth"),
                     {"admin", "issuer"}, TRUE)
       ELSE NoAuth
  ELSE AuthCall(authenticate_r1(store, event.headers, {"admin"}, FALSE, event.storeFails = "auth"), {"admin"}, FALSE)

\* POST branch
createKey_r1(store, event, n) ==
  IF event.httpMethod # "POST" THEN Outcome(Response(405, MsgMethodNotAllowedPlain), store, NoAuth)
  ELSE IF ~event.body.parsable THEN Outcome(Response(400, MsgInvalidJson), store, NoAuth)
  ELSE LET keyData == event.body.json IN
    IF ~Has(keyData, "role") \/ ~Has(keyData, "isActive")
       \/ ~Has(keyData, "description") \/ keyData.description = << >>
    THEN Outcome(Response(400, MsgMissingData), store, NoAuth)
    ELSE IF keyData.role \notin allowedRoles
    THEN Outcome(Response(400, MsgInvalidRoleR1), store, NoAuth)
    ELSE IF Len(trim(keyData.description)) < 3
    THEN Outcome(Response(400, MsgDescription), store, NoAuth)
    ELSE IF event.storeFails = "unique"
    THEN Outcome(Response(500, "Internal Server Error while validating description"), store, NoAuth)
    ELSE IF whereDescription(store, trim(keyData.description)) # {}
    THEN Outcome(Response(409, MsgDupDescription), store, NoAuth)
    ELSE LET call == authorizeCreate_r1(store, event, keyData) IN
      IF ~call.called
      THEN Outcome(Response(401, "Authentication required: Reader keys can only be created with bootstrap token. Use Authorization: Bearer <bootstrap_token>"), store, call)
      ELSE IF ~call.result.authenticated
      THEN Outcome(AuthFailure(call.result), store, call)
      ELSE IF event.storeFails = "write"
      THEN Outcome(Response(500, MsgInternal), store, call)
      ELSE LET secret == IF Has(keyData, "secret") /\ keyData.secret # ""
                         THEN keyData.secret ELSE RandomSecret(n)
               saved == Spread(keyData,
                               [secret |-> secret,
                                description |-> trim(keyData.description),
                                createdAt |-> serverTimestamp])
               docId == AutoId(n)
           IN Outcome(
                [statusCode |-> 201,
                 body |-> [message |-> MsgCreated, id |-> docId,
                           description |-> saved.description, role |-> saved.role,
                           isActive |-> saved.isActive, secret |-> saved.secret]],
                setDoc(store, docId, saved), call)

(* ------------------- createKey, revision r2 (497-591) ----------------- *)

\* generateSecret()
generateSecret(n) == RandomSecret(n)

createKey_r2(store, event, n) ==
  LET authResult == authenticate_r2(store, event.headers, {"admin"}, TRUE, event.storeFails = "auth")
      call == AuthCall(authResult, {"admin"}, TRUE)
  IN IF event.httpMethod # "POST"
     THEN Outcome(Response(405, MsgMethodNotAllowedPlain), store, NoAuth)
  ELSE IF ~authResult.authenticated THEN Outcome(AuthFailure(authResult), store, call)
  ELSE IF ~event.body.parsable THEN Outcome(Response(400, MsgInvalidJson), store, call)
  ELSE LET keyData == event.body.json IN
    IF ~Has(keyData, "role") \/ ~Has(keyData, "isActive")
    THEN Outcome(Response(400, MsgMissingData), store, call)
    ELSE IF keyData.role \notin allowedRoles
    THEN Outcome(Response(400, MsgInvalidRoleR2), store, call)
    ELSE LET secret == generateSecret(n)
             baseForId == IF Has(keyData, "description") /\ keyData.description # << >>
                          THEN trim(keyData.description) ELSE RoleChars(keyData.role)
             keyId == generateKeyId(baseForId)
             toSave == Spread([secret |-> secret, role |-> keyData.role,
                               isActive |-> keyData.isActive,
                               createdAt |-> serverTimestamp,
                               createdBy |-> authResult.keyId],
                              IF Has(keyData, "description")
                              THEN [description |-> trim(keyData.description)]
                              ELSE << >>)
         IN IF event.storeFails = "lookup"
            THEN Outcome(Response(500, MsgInternal), store, call)
            ELSE IF Has(store, keyId)
            THEN Outcome(Response(409, "A key with this identifier already exists. Please use a different description."), store, call)
            ELSE IF event.storeFails = "write"
            THEN Outcome(Response(500, MsgInternal), store, call)
            ELSE Outcome(
                   [statusCode |-> 201,
                    body |-> [message |-> MsgCreated, keyId |-> keyId, secret |-> secret,
                              role |-> toSave.role, isActive |-> toSave.isActive,
                              warning |-> "Save the secret securely! It will not be shown again."]],
                   setDoc(store, keyId, toSave), call)

(* ------------------------------- manageKey ---------------------------- *)

MsgTargetNotFound    == "Key not found. Please check the description or ID."
MsgTargetAmbiguous   == "Multiple keys found with this description. Please use the specific key ID."
MsgNoFields          == "No valid fields to update. Allowed fields: role, isActive, description"
MsgSelfDeactivate    == "Cannot deactivate your own admin key"
MsgSelfRoleChange    == "Cannot change your own admin role"
MsgUpdated           == "Key updated successfully"
MsgDeactivated       == "Key deactivated successfully"

PathManageKey == << "m","a","n","a","g","e","K","e","y" >>

\* resolveTarget looking the description up before the id
resolveTarget_DescriptionFirst(store, targetIdentifier) ==
  LET keysSnapshot == whereDescription(store, targetIdentifier) IN
  IF Cardinality(keysSnapshot) = 1
  THEN [found |-> TRUE, targetKeyId |-> CHOOSE id \in keysSnapshot : TRUE]
  ELSE IF Cardinality(keysSnapshot) > 1
  THEN [found |-> FALSE, response |-> Response(400, MsgTargetAmbiguous)]
  ELSE IF Has(store, targetIdentifier)
  THEN [found |-> TRUE, targetKeyId |-> targetIdentifier]
  ELSE [found |-> FALSE, response |-> Response(404, MsgTargetNotFound)]

\* Target resolution: the document whose id is the identifier, otherwise the
\* documents whose description equals it
resolveTarget(store, targetIdentifier) ==
  IF Has(store, targetIdentifier)
  THEN [found |-> TRUE, targetKeyId |-> targetIdentifier]
  ELSE LET keysSnapshot == whereDescription(store, targetIdentifier) IN
    IF keysSnapshot = {}
    THEN [found |-> FALSE, response |-> Response(404, MsgTargetNotFound)]
    ELSE IF Cardinality(keysSnapshot) > 1
    THEN [found |-> FALSE, response |-> Response(400, MsgTargetAmbiguous)]
    ELSE [found |-> TRUE, targetKeyId |-> CHOOSE id \in keysSnapshot : TRUE]

\* validateUpdate accepting isActive only when it is false
validateUpdate_NoReactivation(store, currentKeyData, updateData) ==
  IF Has(updateData, "role") /\ updateData.role \notin allowedRoles
  THEN [ok |-> FALSE, response |-> Response(400, MsgInvalidRoleR1)]
  ELSE IF Has(updateData, "description") /\ Len(trim(updateData.description)) < 3
  THEN [ok |-> FALSE, response |-> Response(400, MsgDescription)]
  ELSE IF /\ Has(updateData, "description")
          /\ ~(Has(currentKeyData, "description")
               /\ trim(updateData.description) = currentKeyData.description)
          /\ whereDescription(store, trim(updateData.description)) # {}
  THEN [ok |-> FALSE, response |-> Response(409, MsgDupDescription)]
  ELSE [ok |-> TRUE,
        updates |-> Spread(Pick(updateData,
                                IF Has(updateData, "isActive") /\ updateData.isActive
                                THEN {"role"} ELSE {"role", "isActive"}),
                           IF Has(updateData, "description")
                           THEN [description |-> trim(updateData.description)]
                           ELSE << >>)]

\* validateUpdate querying the description even when it is the current one
validateUpdate_NoSelfExclusion(store, currentKeyData, updateData) ==
  IF Has(updateData, "role") /\ updateData.role \notin allowedRoles
  THEN [ok |-> FALSE, response |-> Response(400, MsgInvalidRoleR1)]
  ELSE IF Has(updateData, "description") /\ Len(trim(updateData.description)) < 3
  THEN [ok |-> FALSE, response |-> Response(400, MsgDescription)]
  ELSE IF /\ Has(updateData, "description")
          /\ whereDescription(store, trim(updateData.description)) # {}
  THEN [ok |-> FALSE, response |-> Response(409, MsgDupDescription)]
  ELSE [ok |-> TRUE,
        updates |-> Spread(Pick(updateData, {"role", "isActive"}),
                           IF Has(updateData, "description")
                           THEN [description |-> trim(updateData.description)]
                           ELSE << >>)]

\* validateUpdate without the test of the role against allowedRoles
validateUpdate_AnyRole(store, currentKeyData, updateData) ==
  IF Has(updateData, "description") /\ Len(trim(updateData.description)) < 3
  THEN [ok |-> FALSE, response |-> Response(400, MsgDescription)]
  ELSE IF /\ Has(updateData, "description")
          /\ ~(Has(currentKeyData, "description")
               /\ trim(updateData.description) = currentKeyData.description)
          /\ whereDescription(store, trim(updateData.description)) # {}
  THEN [ok |-> FALSE, response |-> Response(409, MsgDupDescription)]
  ELSE [ok |-> TRUE,
        updates |-> Spread(Pick(updateData, {"role", "isActive"}),
                           IF Has(updateData, "description")
                           THEN [description |-> trim(updateData.description)]
                           ELSE << >>)]

\* The validated patch of a PUT, or the response that rejects the body
validateUpdate(store, currentKeyData, updateData) ==
  IF Has(updateData, "role") /\ updateData.role \notin allowedRoles
  THEN [ok |-> FALSE, response |-> Response(400, MsgInvalidRoleR1)]
  ELSE IF Has(updateData, "description") /\ Len(trim(updateData.description)) < 3
  THEN [ok |-> FALSE, response |-> Response(400, MsgDescription)]
  ELSE IF /\ Has(updateData, "description")
          /\ ~(Has(currentKeyData, "description")
               /\ trim(updateData.description) = currentKeyData.description)
          /\ whereDescription(store, trim(updateData.description)) # {}
  THEN [ok |-> FALSE, response |-> Response(409, MsgDupDescription)]
  ELSE [ok |-> TRUE,
        updates |-> Spread(Pick(updateData, {"role", "isActive"}),
                           IF Has(updateData, "description")
                           THEN [description |-> trim(updateData.description)]
                           ELSE << >>)]

\* The handler threw: it returned no response and the platform answers
Thrown(event) ==
  [statusCode |-> event.platform, thrown |-> TRUE, body |-> [message |-> "unhandled rejection"]]

\* The PUT validation reaches its description-uniqueness query: the role is
\* valid, the new description is long enough and differs from the current
QueriesDescription(currentKeyData, updateData) ==
  /\ Has(updateData, "role") => updateData.role \in allowedRoles
  /\ Has(updateData, "description")
  /\ Len(trim(updateData.description)) >= 3
  /\ ~(Has(currentKeyData, "description")
       /\ trim(updateData.description) = currentKeyData.description)

\* updateKey without the two self-protection tests
updateKey_NoSelfProtection(store, event, authResult, targetKeyId) ==
  IF ~event.body.parsable THEN Response(400, MsgInvalidJson)
  ELSE LET currentKeyData == store[targetKeyId]
           checked == validateUpdate(store, currentKeyData, event.body.json)
       IN IF /\ event.storeFails = "unique"
             /\ QueriesDescription(currentKeyData, event.body.json)
          THEN Thrown(event)
       ELSE IF ~checked.ok THEN checked.response
       ELSE LET updates == checked.updates IN
         IF DOMAIN updates = {} THEN Response(400, MsgNoFields)
         ELSE LET stamped == Spread(updates, [updatedAt |-> serverTimestamp,
                                              updatedBy |-> authResult.keyId])
              IN [statusCode |-> 200,
                  body |-> [message |-> MsgUpdated, id |-> targetKeyId,
                            description |->
                              IF Has(updates, "description") /\ updates.description # << >>
                              THEN updates.description
                              ELSE IF Has(currentKeyData, "description")
                                   THEN currentKeyData.description ELSE << >>,
                            updates |-> stamped],
                  write |-> stamped]

\* updateKey without the test for an empty patch
updateKey_NoEmptyGuard(store, event, authResult, targetKeyId) ==
  IF ~event.body.parsable THEN Response(400, MsgInvalidJson)
  ELSE LET currentKeyData == store[targetKeyId]
           checked == validateUpdate(store, currentKeyData, event.body.json)
       IN IF /\ event.storeFails = "unique"
             /\ QueriesDescription(currentKeyData, event.body.json)
          THEN Thrown(event)
       ELSE IF ~checked.ok THEN checked.response
       ELSE LET updates == checked.updates IN
         IF /\ Has(updates, "isActive") /\ updates.isActive = FALSE
                 /\ currentKeyData.role = "admin" /\ authResult.keyId = targetKeyId
         THEN Response(400, MsgSelfDeactivate)
         ELSE IF /\ Has(updates, "role") /\ updates.role # "admin"
                 /\ currentKeyData.role = "admin" /\ authResult.keyId = targetKeyId
         THEN Response(400, MsgSelfRoleChange)
         ELSE LET stamped == Spread(updates, [updatedAt |-> serverTimestamp,
                                              updatedBy |-> authResult.keyId])
              IN [statusCode |-> 200,
                  body |-> [message |-> MsgUpdated, id |-> targetKeyId,
                            description |->
                              IF Has(updates, "description") /\ updates.description # << >>
                              THEN updates.description
                              ELSE IF Has(currentKeyData, "description")
                                   THEN currentKeyData.description ELSE << >>,
                            updates |-> stamped],
                  write |-> stamped]

\* PUT branch, after authentication and target resolution
updateKey(store, event, authResult, targetKeyId) ==
  IF ~event.body.parsable THEN Response(400, MsgInvalidJson)
  ELSE LET currentKeyData == store[targetKeyId]
           checked == validateUpdate(store, currentKeyData, event.body.json)
       IN IF /\ event.storeFails = "unique"
             /\ QueriesDescription(currentKeyData, event.body.json)
          THEN Thrown(event)
       ELSE IF ~checked.ok THEN checked.response
       ELSE LET updates == checked.updates IN
         IF DOMAIN updates = {} THEN Response(400, MsgNoFields)
         ELSE IF /\ Has(updates, "isActive") /\ updates.isActive = FALSE
                 /\ currentKeyData.role = "admin" /\ authResult.keyId = targetKeyId
         THEN Response(400, MsgSelfDeactivate)
         ELSE IF /\ Has(updates, "role") /\ updates.role # "admin"
                 /\ currentKeyData.role = "admin" /\ authResult.keyId = targetKeyId
         THEN Response(400, MsgSelfRoleChange)
         ELSE LET stamped == Spread(updates, [updatedAt |-> serverTimestamp,
                                              updatedBy |-> authResult.keyId])
              IN [statusCode |-> 200,
                  body |-> [message |-> MsgUpdated, id |-> targetKeyId,
                            description |->
                              IF Has(updates, "description") /\ updates.description # << >>
                              THEN updates.description
                              ELSE IF Has(currentKeyData, "description")
                                   THEN currentKeyData.description ELSE << >>,
                            updates |-> stamped],
                  write |-> stamped]

\* deactivateKey writing before it tests for self-deactivation
deactivateKey_WriteThenTest(store, authResult, targetKeyId) ==
  LET currentKeyData == store[targetKeyId]
      write == [isActive |-> FALSE, deactivatedAt |-> serverTimestamp,
                deactivatedBy |-> authResult.keyId]
  IN IF currentKeyData.role = "admin" /\ authResult.keyId = targetKeyId
     THEN [statusCode |-> 400, body |-> [message |-> MsgSelfDeactivate], write |-> write]
     ELSE [statusCode |-> 200,
           body |-> [message |-> MsgDeactivated, id |-> targetKeyId,
                     description |-> IF Has(currentKeyData, "description")
                                     THEN currentKeyData.description ELSE << >>],
           write |-> write]

\* deactivateKey without the self-protection test
deactivateKey_NoSelfProtection(store, authResult, targetKeyId) ==
  LET currentKeyData == store[targetKeyId] IN
  [statusCode |-> 200,
   body |-> [message |-> MsgDeactivated, id |-> targetKeyId,
             description |-> IF Has(currentKeyData, "description")
                             THEN currentKeyData.description ELSE << >>],
   write |-> [isActive |-> FALSE, deactivatedAt |-> serverTimestamp,
              deactivatedBy |-> authResult.keyId]]

\* DELETE branch, after authentication and target resolution
deactivateKey(store, authResult, targetKeyId) ==
  LET currentKeyData == store[targetKeyId] IN
  IF currentKeyData.role = "admin" /\ authResult.keyId = targetKeyId
  THEN Response(400, MsgSelfDeactivate)
  ELSE [statusCode |-> 200,
        body |-> [message |-> MsgDeactivated, id |-> targetKeyId,
                  description |-> IF Has(currentKeyData, "description")
                                  THEN currentKeyData.description ELSE << >>],
        write |-> [isActive |-> FALSE, deactivatedAt |-> serverTimestamp,
                   deactivatedBy |-> authResult.keyId]]

\* What an invocation of manageKey has decided once its reads are done:
\* the response it will return, and the update() it still has to await
Decided(response, authCall) ==
  [response |-> response, auth |-> authCall, writes |-> FALSE,
   targetKeyId |-> << >>, write |-> << >>]

\* exports.handler of manageKey, up to its update()
decideManageKey(store, event) ==
  IF event.target = << >> \/ event.target = PathManageKey
  THEN Decided(Response(400, "Missing key identifier in path"), NoAuth)
  ELSE LET authResult == authenticate_mk(store, event.headers, {"admin"}, event.storeFails = "auth")
           call == AuthCall(authResult, {"admin"}, FALSE)
       IN IF ~authResult.authenticated THEN Decided(AuthFailure(authResult), call)
       ELSE IF event.storeFails = "lookup" THEN Decided(Thrown(event), call)
       ELSE IF ~Has(store, event.target) /\ event.storeFails = "query"
       THEN Decided(Thrown(event), call)
       ELSE LET target == resolveTarget(store, event.target) IN
         IF ~target.found THEN Decided(target.response, call)
         ELSE LET result ==
                    IF event.httpMethod = "PUT"
                    THEN updateKey(store, event, authResult, target.targetKeyId)
                    ELSE IF event.httpMethod = "DELETE"
                    THEN deactivateKey(store, authResult, target.targetKeyId)
                    ELSE Response(405, "Method Not Allowed. Supported methods: PUT, DELETE")
              IN IF Has(result, "write") /\ event.storeFails = "write"
                 THEN Decided(Response(500, MsgInternal), call)
                 ELSE IF Has(result, "write")
                 THEN [response |-> Pick(result, {"statusCode", "body"}), auth |-> call,
                       writes |-> TRUE, targetKeyId |-> target.targetKeyId,
                       write |-> result.write]
                 ELSE Decided(result, call)

\* exports.handler of manageKey
manageKey(store, event) ==
  LET decided == decideManageKey(store, event) IN
  Outcome(decided.response,
          IF decided.writes
          THEN updateDoc(store, decided.targetKeyId, decided.write) ELSE store,
          decided.auth)

(* ------------------- writeCertificate, deleteCertificate -------------- *)

MsgMissingCertData == "Missing required certificate data in request body"
MsgCertExists      == "Certificate with this code already exists"
MsgCertCreated     == "Certificate created successfully"
MsgCertNotFound    == "Certificate not found"
MsgCertDeleted(id) == "Certificate with ID: " \o id \o " deleted successfully"

\* authenticate_wc accepting every stored role
authenticate_wc_AnyRole(store, hdr, requiredRoles, readFails) ==
  IF hdr.scheme # "Bearer" THEN AuthError(401, MsgMissingHeader)
  ELSE AuthenticateToken(store, HeaderToken(hdr), allowedRoles, FALSE, readFails)

\* authenticate of writeCertificate: 'Bearer ' test, no bootstrap branch
authenticate_wc(store, hdr, requiredRoles, readFails) ==
  IF hdr.scheme # "Bearer" THEN AuthError(401, MsgMissingHeader)
  ELSE AuthenticateToken(store, HeaderToken(hdr), requiredRoles, FALSE, readFails)

\* authenticate_dc with the bootstrap branch enabled
authenticate_dc_WithBootstrap(store, hdr, requiredRoles, readFails) ==
  IF hdr.scheme # "Bearer" THEN AuthError(401, MsgMissingHeader)
  ELSE AuthenticateToken(store, HeaderToken(hdr), requiredRoles, TRUE, readFails)

\* authenticate of deleteCertificate: 'Bearer ' test, no bootstrap branch
authenticate_dc(store, hdr, requiredRoles, readFails) ==
  IF hdr.scheme # "Bearer" THEN AuthError(401, MsgMissingHeader)
  ELSE AuthenticateToken(store, HeaderToken(hdr), requiredRoles, FALSE, readFails)

\* What a certificate handler run yields: the HTTP response, the
\* certificates collection afterwards and the authenticate call it made
CertOutcome(response, certificates, authCall) ==
  [response |-> response, certificates |-> certificates, auth |-> authCall]

\* new Date().toISOString()
isoNow == "iso-now"

\* writeCertificate in which the fields of the body override the stamps
writeCertificate_BodyWins(store, certificates, event) ==
  IF event.httpMethod # "POST"
  THEN CertOutcome(Response(405, MsgMethodNotAllowedPlain), certificates, NoAuth)
  ELSE LET authResult == authenticate_wc(store, event.headers, {"admin", "issuer"}, event.storeFails = "auth")
           call == AuthCall(authResult, {"admin", "issuer"}, FALSE)
       IN IF ~authResult.authenticated
          THEN CertOutcome(AuthFailure(authResult), certificates, call)
          ELSE IF ~event.body.parsable
          THEN CertOutcome(Response(400, MsgInvalidJson), certificates, call)
          ELSE LET certificateData == event.body.json IN
            IF \E f \in {"code", "name", "event"} :
                 ~Has(certificateData, f) \/ certificateData[f] = ""
            THEN CertOutcome(Response(400, MsgMissingCertData), certificates, call)
            ELSE IF event.storeFails = "lookup"
            THEN CertOutcome(Response(500, MsgInternal), certificates, call)
            ELSE IF Has(certificates, certificateData.code)
            THEN CertOutcome(Response(409, MsgCertExists), certificates, call)
            ELSE IF event.storeFails = "write"
            THEN CertOutcome(Response(500, MsgInternal), certificates, call)
            ELSE CertOutcome(
                   [statusCode |-> 201,
                    body |-> [message |-> MsgCertCreated, id |-> certificateData.code]],
                   setDoc(certificates, certificateData.code,
                          Spread([timestamp |-> isoNow, createdBy |-> authResult.keyId],
                                 certificateData)),
                   call)

\* exports.handler of writeCertificate
writeCertificate(store, certificates, event) ==
  IF event.httpMethod # "POST"
  THEN CertOutcome(Response(405, MsgMethodNotAllowedPlain), certificates, NoAuth)
  ELSE LET authResult == authenticate_wc(store, event.headers, {"admin", "issuer"}, event.storeFails = "auth")
           call == AuthCall(authResult, {"admin", "issuer"}, FALSE)
       IN IF ~authResult.authenticated
          THEN CertOutcome(AuthFailure(authResult), certificates, call)
          ELSE IF ~event.body.parsable
          THEN CertOutcome(Response(400, MsgInvalidJson), certificates, call)
          ELSE LET certificateData == event.body.json IN
            IF \E f \in {"code", "name", "event"} :
                 ~Has(certificateData, f) \/ certificateData[f] = ""
            THEN CertOutcome(Response(400, MsgMissingCertData), certificates, call)
            ELSE IF event.storeFails = "lookup"
            THEN CertOutcome(Response(500, MsgInternal), certificates, call)
            ELSE IF Has(certificates, certificateData.code)
            THEN CertOutcome(Response(409, MsgCertExists), certificates, call)
            ELSE IF event.storeFails = "write"
            THEN CertOutcome(Response(500, MsgInternal), certificates, call)
            ELSE CertOutcome(
                   [statusCode |-> 201,
                    body |-> [message |-> MsgCertCreated, id |-> certificateData.code]],
                   setDoc(certificates, certificateData.code,
                          Spread(certificateData,
                                 [timestamp |-> isoNow, createdBy |-> authResult.keyId])),
                   call)

\* certificateRef.delete()
deleteDoc(collection, id) == [k \in DOMAIN collection \ {id} |-> collection[k]]

\* exports.handler of deleteCertificate; event.target is the id query
\* parameter, "" when it is absent
deleteCertificate(store, certificates, event) ==
  IF event.httpMethod # "DELETE"
  THEN CertOutcome(Response(405, MsgMethodNotAllowedPlain), certificates, NoAuth)
  ELSE LET authResult == authenticate_dc(store, event.headers, {"admin"}, event.storeFails = "auth")
           call == AuthCall(authResult, {"admin"}, FALSE)
       IN IF ~authResult.authenticated
          THEN CertOutcome(AuthFailure(authResult), certificates, call)
          ELSE IF event.target = ""
          THEN CertOutcome(Response(400, "Missing \"id\" query parameter for certificate deletion"), certificates, call)
          ELSE IF event.storeFails = "lookup"
          THEN CertOutcome(Response(500, MsgInternal), certificates, call)
          ELSE IF ~Has(certificates, event.target)
          THEN CertOutcome(Response(404, MsgCertNotFound), certificates, call)
          ELSE IF event.storeFails = "write"
          THEN CertOutcome(Response(500, MsgInternal), certificates, call)
          ELSE CertOutcome(
                 Response(200, MsgCertDeleted(event.target)),
                 deleteDoc(certificates, event.target), call)

(* ----------------------------- getCertificate ------------------------- *)


\* The three handlers kept for getCertificate: by a query on the code field
\* (getCertificate.js:27-68), by document id (getCertificate.js:85-125) and
\* by document id with CORS headers (part_006:32-113)
GetRevisions == {"byField", "byId", "cors"}

\* whereCode matching the name field instead of the code field
whereCode_ByName(certificates, code) ==
  {id \in DOMAIN certificates :
     Has(certificates[id], "name") /\ certificates[id].name = code}

\* db.collection('certificates').where('code', '==', code).get()
whereCode(certificates, code) ==
  {id \in DOMAIN certificates :
     Has(certificates[id], "code") /\ certificates[id].code = code}

\* The handler makes no authenticate call and returns the collection as it
\* found it; event.target is the value of the query parameter it reads. The
\* preflight answer has an empty body, here the object without fields.
getCertificate(certificates, event) ==
  LET g == event.revision
      answer ==
        IF g = "cors" /\ event.httpMethod = "OPTIONS" THEN [statusCode |-> 200, body |-> << >>]
        ELSE IF event.httpMethod # "GET" THEN Response(405, MsgMethodNotAllowedPlain)
        ELSE IF event.target = ""
        THEN Response(400, IF g = "byId" THEN "Missing \"id\" query parameter" ELSE "Missing \"code\" query parameter")
        ELSE IF event.storeFails = "lookup" THEN Response(500, MsgInternal)
        ELSE IF g = "byField"
        THEN LET certificatesQuery == whereCode(certificates, event.target) IN
             IF certificatesQuery = {} THEN Response(404, MsgCertNotFound)
             ELSE LET docId == CHOOSE id \in certificatesQuery : TRUE IN
                  [statusCode |-> 200,
                   body |-> Spread([id |-> docId], certificates[docId])]
        ELSE IF ~Has(certificates, event.target) THEN Response(404, MsgCertNotFound)
        ELSE [statusCode |-> 200,
              body |-> IF g = "byId" THEN certificates[event.target]
                       ELSE Spread([code |-> event.target], certificates[event.target])]
  IN CertOutcome(answer, certificates, NoAuth)

(* --------------------------- requests explored ------------------------ *)

DescABC     == << "a","b","c" >>
DescPadded  == << " ","a","b","c"," " >>
DescShort   == << "a","b"," " >>
DescXYZ     == << "x","y","z" >>
DescMixed   == << "A"," "," ","b" >>
DescAdmin   == << "a","d","m" >>
DescReader  == << "r","d","r" >>
DescLegacy  == << "o","l","d" >>

RootId    == << "r","o","o","t" >>
IssuerId  == generateKeyId(DescABC)
ReaderId  == AutoId(0)
LegacyId  == << "l","e","g","a","c","y" >>
UnknownId == << "n","o","b","o","d","y" >>

\* The collection before the first request: an admin key made by hand in the
\* console, an issuer key made by createKey r2, a reader key made by
\* createKey r1, and a document stored without a secret by the superseded
\* handler (createKey.js:699-754, which stores the request body as it is).
InitialKeys ==
  (RootId :> [secret |-> "secret-root", role |-> "admin", isActive |-> TRUE,
              description |-> DescAdmin])
  @@ (IssuerId :> [secret |-> "secret-issuer", role |-> "issuer", isActive |-> TRUE,
                   description |-> DescABC, createdAt |-> serverTimestamp,
                   createdBy |-> RootId])
  @@ (ReaderId :> [secret |-> "secret-reader", role |-> "reader", isActive |-> TRUE,
                   description |-> DescReader, createdAt |-> serverTimestamp])
  @@ (LegacyId :> [role |-> "admin", isActive |-> TRUE, description |-> DescLegacy])

Garbage == [wellFormed |-> FALSE, payload |-> << >>, sig |-> "none", expired |-> FALSE]

Jwt(payload, sig, expired) ==
  [wellFormed |-> TRUE, payload |-> payload, sig |-> sig, expired |-> expired]

SigsFor(store, keyId) ==
  {"forged"}
  \cup (IF Has(store, keyId) /\ Has(store[keyId], "secret") THEN {store[keyId].secret} ELSE {})
  \cup (IF keyId = BOOTSTRAP_KEY_ID THEN {BOOTSTRAP_SECRET} ELSE {})

\* Tokens naming key k: forged, genuine, and genuine but expired
TokensFor(store, k) ==
  {Jwt([keyId |-> k], "forged", FALSE)}
  \cup {Jwt([keyId |-> k], s, e) : s \in SigsFor(store, k) \ {"forged"}, e \in BOOLEAN}

Tokens(store) ==
  {Garbage, Jwt(<< >>, "forged", FALSE), Jwt([keyId |-> RootId], "forged", TRUE),
   Jwt([keyId |-> UnknownId], "secret-root", TRUE)}
  \cup UNION {TokensFor(store, k) :
                k \in {RootId, BOOTSTRAP_KEY_ID, UnknownId}
                      \cup {i \in DOMAIN store : ~Has(store[i], "secret")}}

NoHeader == [scheme |-> "none", token |-> Garbage]

Bearer(token) == [scheme |-> "Bearer", token |-> token]

\* A token signed with the key's own secret and not expired
ValidToken(store, keyId) ==
  Jwt([keyId |-> keyId],
      IF keyId = BOOTSTRAP_KEY_ID THEN BOOTSTRAP_SECRET ELSE store[keyId].secret, FALSE)

Holders(store) == {k \in DOMAIN store : Has(store[k], "secret")}

\* The callers that hold a genuine credential, and the anonymous caller
Principals(store) ==
  {NoHeader} \cup {Bearer(ValidToken(store, k)) : k \in Holders(store) \cup {BOOTSTRAP_KEY_ID}}

\* The issuer key's holder signs a token whose payload also claims a role
ClaimingAdmin(store) ==
  {Bearer(Jwt([keyId |-> k, role |-> "admin"], store[k].secret, FALSE)) :
     k \in {IssuerId} \cap Holders(store)}

\* Every header shape, every token shape, and every genuine credential
AllHeaders(store) ==
  Principals(store)
  \cup ClaimingAdmin(store)
  \cup {Bearer(t) : t \in Tokens(store)}
  \cup {[scheme |-> "Basic", token |-> t] : t \in {Garbage, ValidToken(store, RootId)}}

AdminPrincipals(store) ==
  {Bearer(ValidToken(store, k)) :
     k \in {h \in Holders(store) : store[h].role = "admin" /\ store[h].isActive}}

Json(obj) == [parsable |-> TRUE, json |-> obj]

NotJson == [parsable |-> FALSE, json |-> << >>]

CreateBodies ==
  {Json([role |-> r, isActive |-> TRUE, description |-> DescXYZ]) : r \in allowedRoles}
  \cup {Json([role |-> "reader", isActive |-> TRUE, description |-> d]) :
          d \in {DescABC, DescPadded, DescShort, DescMixed, DescReader, IssuerId}}
  \cup {Json([role |-> "reader", isActive |-> TRUE]),
        Json([role |-> "admin", isActive |-> FALSE]),
        Json([role |-> "reader", isActive |-> FALSE, description |-> DescXYZ]),
        Json([role |-> "reader", isActive |-> TRUE, description |-> DescXYZ,
              secret |-> "chosen"]),
        Json([role |-> "reader", isActive |-> TRUE, description |-> DescXYZ,
              createdBy |-> UnknownId, updatedBy |-> UnknownId,
              deactivatedBy |-> UnknownId]),
        Json([role |-> "superadmin", isActive |-> TRUE, description |-> DescXYZ]),
        Json([isActive |-> TRUE, description |-> DescXYZ]),
        Json([role |-> "admin", description |-> DescXYZ]),
        NotJson}

RoleBodies ==
  {Json([role |-> r, isActive |-> TRUE, description |-> DescXYZ]) : r \in allowedRoles}

\* One well-formed body, sent with every header shape
ReaderProbe == {Json([role |-> "reader", isActive |-> TRUE, description |-> DescXYZ])}

UpdateBodies ==
  {Json(o) : o \in
     {[isActive |-> FALSE], [isActive |-> TRUE], [role |-> "issuer"], [role |-> "admin"],
      [role |-> "superadmin"], [description |-> DescXYZ], [description |-> DescABC],
      [description |-> DescPadded], [description |-> DescShort],
      [description |-> IssuerId], [secret |-> "chosen"],
      [isActive |-> TRUE, secret |-> "chosen"],
      [isActive |-> FALSE, description |-> DescXYZ], << >>,
      [role |-> "issuer", isActive |-> FALSE],
      [role |-> "issuer", isActive |-> TRUE, description |-> DescXYZ]}}
  \cup {NotJson}


Targets(store) ==
  DOMAIN store
  \cup {store[k].description : k \in {i \in DOMAIN store : Has(store[i], "description")}}
  \cup {UnknownId, << >>}

\* The caller's own key, by its id and by its description
OwnTargets(store, headers) ==
  LET self == headers.token.payload.keyId IN
  {self} \cup (IF Has(store[self], "description") THEN {store[self].description} ELSE {})

\* Updates of the caller's own key: those that would lock it out, and renames
OwnBodies ==
  {Json(o) : o \in {[isActive |-> FALSE], [role |-> "issuer"], [role |-> "admin"],
                    [isActive |-> FALSE, description |-> DescXYZ],
                    [description |-> DescABC], [description |-> IssuerId]}}

\* A request during which the store works
Event(method, headers, body, target) ==
  [httpMethod |-> method, headers |-> headers, body |-> body, target |-> target,
   storeFails |-> "none", platform |-> 502]

\* The same request, during which the store operation of the given kind
\* throws if the handler reaches it; platform is the status the hosting
\* platform answers with when the handler itself throws
Failing(event, kind, platform) ==
  [event EXCEPT !.storeFails = kind, !.platform = platform]

\* The root administrator, while its key is an active admin key
RootAdmin(store) ==
  {h \in AdminPrincipals(store) : h.token.payload.keyId = RootId}

\* The status the hosting platform answers with when a handler throws
PlatformStatuses == {500, 502}

\* Creation requests: every body by an admin, the bodies that validation
\* refuses by an anonymous caller, every role by every credential holder,
\* one well-formed body with every header, and the store failures
CreateEvents(store, probes) ==
  {Event("POST", h, b, << >>) : h \in AdminPrincipals(store), b \in CreateBodies}
  \cup {Event("POST", NoHeader, b, << >>) :
          b \in {c \in CreateBodies :
                   \/ ~c.parsable
                   \/ {"role", "isActive", "description"} \ DOMAIN c.json # {}
                   \/ c.json.role \notin allowedRoles
                   \/ c.json.description \in {DescShort, DescReader}}}
  \cup {Event("POST", h, b, << >>) : h \in Principals(store), b \in RoleBodies}
  \cup {Event("POST", h, b, << >>) : h \in AllHeaders(store), b \in probes}
  \cup {Event("DELETE", h, b, << >>) : h \in AdminPrincipals(store), b \in ReaderProbe}
  \cup {Failing(Event("POST", h, b, << >>), kind, 502) :
          h \in RootAdmin(store), b \in ReaderProbe,
          kind \in {"auth", "lookup", "unique", "write"}}

UpdateEvents(store) ==
  {Event("PUT", h, b, IssuerId) : h \in AdminPrincipals(store), b \in UpdateBodies}
  \cup UNION {{Event("PUT", h, b, t) : b \in OwnBodies, t \in OwnTargets(store, h)}
               : h \in AdminPrincipals(store)}
  \cup {Event("PUT", h, b, t) :
          h \in AdminPrincipals(store), b \in {Json([isActive |-> FALSE])},
          t \in Targets(store) \ DOMAIN store}
  \cup {Event("PUT", h, Json([isActive |-> FALSE]), IssuerId) : h \in AllHeaders(store)}
  \cup {Failing(Event("PUT", h, Json([description |-> DescXYZ]), IssuerId), kind, 502) :
          h \in RootAdmin(store), kind \in {"auth", "unique", "write"}}
  \cup {Failing(Event("PUT", h, Json([description |-> DescXYZ]), IssuerId), "lookup", p) :
          h \in RootAdmin(store), p \in PlatformStatuses}
  \cup {Failing(Event("PUT", h, Json([role |-> "issuer"]), DescReader), "query", 502) :
          h \in RootAdmin(store)}

DeactivateEvents(store) ==
  {Event("DELETE", h, NotJson, t) : h \in AdminPrincipals(store), t \in Targets(store)}
  \cup {Event("DELETE", h, NotJson, IssuerId) : h \in Principals(store)}
  \cup {Failing(Event("DELETE", h, NotJson, IssuerId), kind, 502) :
          h \in RootAdmin(store), kind \in {"lookup", "write"}}

ListEvents(store) ==
  {Event("GET", h, NotJson, << >>) : h \in Principals(store)}
  \cup {Failing(Event("GET", h, NotJson, << >>), kind, 502) :
          h \in RootAdmin(store), kind \in {"auth", "lookup"}}

\* Certificates: one stored before the requests modelled, one not yet
InitialCerts ==
  [c \in {"CERT-1"} |->
     [code |-> c, name |-> "Ana", event |-> "Workshop", timestamp |-> isoNow,
      createdBy |-> RootId]]

CertBody(code) == Json([code |-> code, name |-> "Bia", event |-> "Workshop"])

WriteEvents(store) ==
  {Event("POST", h, CertBody("CERT-2"), "") :
     h \in Principals(store) \cup ClaimingAdmin(store)}
  \cup {Event("POST", h, CertBody("CERT-1"), "") : h \in AdminPrincipals(store)}
  \cup {Event("POST", h, b, "") :
          h \in AdminPrincipals(store),
          b \in {Json([code |-> "CERT-2", name |-> "Bia", event |-> "Workshop",
                       createdBy |-> UnknownId]),
                 Json([code |-> "CERT-2", event |-> "Workshop"]),
                 NotJson}}
  \cup {Event("GET", h, CertBody("CERT-2"), "") : h \in AdminPrincipals(store)}
  \cup {Failing(Event("POST", h, CertBody("CERT-2"), ""), kind, 502) :
          h \in RootAdmin(store), kind \in {"auth", "lookup", "write"}}

RemoveEvents(store) ==
  {Event("DELETE", h, NotJson, "CERT-1") : h \in Principals(store)}
  \cup {Event("DELETE", h, NotJson, id) :
          h \in AdminPrincipals(store), id \in {"CERT-2", ""}}
  \cup {Event("POST", h, NotJson, "CERT-1") : h \in AdminPrincipals(store)}
  \cup {Failing(Event("DELETE", h, NotJson, "CERT-1"), kind, 502) :
          h \in RootAdmin(store), kind \in {"auth", "lookup", "write"}}

\* The page after init() when the address carries no code: nothing shown,
\* the button enabled, no request sent
PageReady ==
  [input |-> << >>, disabled |-> FALSE, card |-> "hidden", modal |-> FALSE,
   pc |-> "ready", code |-> "", fetches |-> 0]

\* createKey invocations running at the same time
Clients == 1 .. MaxClients

\* An invocation that has not started
Idle ==
  [pc |-> "idle", event |-> << >>, response |-> [statusCode |-> 0],
   docId |-> << >>, data |-> << >>, writesSeen |-> 0]

NoneInFlight == [p \in Clients |-> Idle]

\* Concurrent creations: by the root admin, by nobody, with a fresh
\* description (padded or not), with a taken one and with none
ConcEvents(store) ==
  {Event("POST", h, Json(b), << >>) :
     h \in RootAdmin(store),
     b \in {[role |-> "reader", isActive |-> TRUE, description |-> DescXYZ],
            [role |-> "issuer", isActive |-> TRUE, description |-> << "x","y","z"," " >>],
            [role |-> "reader", isActive |-> TRUE, description |-> DescABC],
            [role |-> "reader", isActive |-> TRUE]}}
  \cup {Event("POST", NoHeader,
               Json([role |-> "reader", isActive |-> TRUE, description |-> DescXYZ]), << >>)}

\* A getCertificate request, handled by revision g
GetEvent(g, method, headers, code) ==
  Spread(Event(method, headers, NotJson, code), [revision |-> g])

\* Lookups of a stored code, of one not stored yet and of none, by anybody
GetEvents(store) ==
  {GetEvent(g, "GET", NoHeader, c) : g \in GetRevisions, c \in {"CERT-1", "CERT-2", ""}}
  \cup {GetEvent("cors", m, NoHeader, "CERT-1") : m \in {"OPTIONS", "POST"}}
  \cup {GetEvent("cors", "GET", Bearer(ValidToken(store, ReaderId)), "CERT-1")}
  \cup {Failing(GetEvent("cors", "GET", NoHeader, "CERT-1"), "lookup", 502)}

(* ------------------------------ the system ---------------------------- *)

Init ==
  /\ rev \in Revisions
  /\ keys = InitialKeys
  /\ certs = InitialCerts
  /\ req = [fn |-> "none"]
  /\ resp = [statusCode |-> 0]
  /\ auth = NoAuth
  /\ nreq = 0
  /\ inflight = NoneInFlight
  /\ ui = PageReady

Handle(fn, event, outcome) ==
  /\ req' = [fn |-> fn, event |-> event]
  /\ resp' = outcome.response
  /\ keys' = outcome.store
  /\ auth' = outcome.auth
  /\ nreq' = nreq + 1
  /\ UNCHANGED <<rev, certs, inflight, ui>>

HandleCert(fn, event, outcome) ==
  /\ req' = [fn |-> fn, event |-> event]
  /\ resp' = outcome.response
  /\ certs' = outcome.certificates
  /\ auth' = outcome.auth
  /\ nreq' = nreq + 1
  /\ UNCHANGED <<rev, keys, inflight, ui>>

\* GET createKey (revision r1 only)
ListKeys ==
  /\ nreq < MaxRequests
  /\ rev = "r1"
  /\ \E event \in ListEvents(keys) : Handle("listKeys", event, listKeys_r1(keys, event))

\* POST createKey, revision r1
CreateKeyR1 ==
  /\ nreq < MaxRequests
  /\ rev = "r1"
  /\ \E event \in CreateEvents(keys, ReaderProbe) :
       Handle("createKey", event, createKey_r1(keys, event, nreq + 1))

\* POST createKey, revision r2
CreateKeyR2 ==
  /\ nreq < MaxRequests
  /\ rev = "r2"
  /\ \E event \in CreateEvents(keys, ReaderProbe) \cup ListEvents(keys) :
       Handle("createKey", event, createKey_r2(keys, event, nreq + 1))

\* PUT manageKey/<identifier>
UpdateKey ==
  /\ nreq < MaxRequests
  /\ \E event \in UpdateEvents(keys) : Handle("manageKey", event, manageKey(keys, event))

\* DELETE manageKey/<identifier>
DeactivateKey ==
  /\ nreq < MaxRequests
  /\ \E event \in DeactivateEvents(keys) : Handle("manageKey", event, manageKey(keys, event))

\* POST writeCertificate
WriteCertificate ==
  /\ nreq < MaxRequests
  /\ \E event \in WriteEvents(keys) :
       HandleCert("writeCertificate", event, writeCertificate(keys, certs, event))

\* DELETE deleteCertificate?id=<id>
DeleteCertificate ==
  /\ nreq < MaxRequests
  /\ \E event \in RemoveEvents(keys) :
       HandleCert("deleteCertificate", event, deleteCertificate(keys, certs, event))

\* GET getCertificate?code=<code>
GetCertificate ==
  /\ nreq < MaxRequests
  /\ \E event \in GetEvents(keys) :
       HandleCert("getCertificate", event, getCertificate(certs, event))

Next ==
  \/ ListKeys \/ CreateKeyR1 \/ CreateKeyR2 \/ UpdateKey \/ DeactivateKey
  \/ WriteCertificate \/ DeleteCertificate \/ GetCertificate

Spec == Init /\ [][Next]_vars

(* ------------------------ concurrent creation ------------------------- *)

\* The POST handler of the deployed revision
createKey(store, event, n) ==
  IF rev = "r1" THEN createKey_r1(store, event, n) ELSE createKey_r2(store, event, n)

\* Writes that have reached the store
WritesDone == Cardinality({p \in Clients : inflight[p].pc = "done" /\ inflight[p].docId # << >>})

\* A write that is refused when the collection meanwhile holds the
\* document's id or its description
resolveWrite_Transactional(store, pending) ==
  IF \/ Has(store, pending.docId)
     \/ /\ Has(pending.data, "description")
        /\ whereDescription(store, pending.data.description) # {}
  THEN [store |-> store, response |-> Response(409, MsgDupDescription)]
  ELSE [store |-> setDoc(store, pending.docId, pending.data), response |-> pending.response]

\* await add(keyData) / await doc(keyId).set(toSave) resolves: the document
\* is in the collection, whatever the collection held, and 201 is returned
resolveWrite(store, pending) ==
  [store |-> setDoc(store, pending.docId, pending.data), response |-> pending.response]

\* An invocation runs up to its write: validation, authentication and the
\* uniqueness read see the collection as it is now. A refused request ends
\* here; an accepted one holds the document it is about to write.
ReadCreate(p) ==
  /\ inflight[p].pc = "idle"
  /\ \E event \in ConcEvents(keys) :
       LET outcome == createKey(keys, event, p)
           accepted == outcome.response.statusCode = 201
           docId == CHOOSE id \in DOMAIN outcome.store \ DOMAIN keys : TRUE
       IN inflight' = [inflight EXCEPT ![p] =
                         [pc |-> IF accepted THEN "write" ELSE "done",
                          event |-> event,
                          response |-> outcome.response,
                          docId |-> IF accepted THEN docId ELSE << >>,
                          data |-> IF accepted THEN outcome.store[docId] ELSE << >>,
                          writesSeen |-> WritesDone]]
  /\ UNCHANGED <<rev, keys, certs, req, resp, auth, nreq, ui>>

\* The write of an accepted invocation reaches the store
WriteCreate(p) ==
  /\ inflight[p].pc = "write"
  /\ LET done == resolveWrite(keys, inflight[p]) IN
       /\ keys' = done.store
       /\ inflight' = [inflight EXCEPT ![p].pc = "done", ![p].response = done.response]
  /\ UNCHANGED <<rev, certs, req, resp, auth, nreq, ui>>

NextConc == \E p \in Clients : ReadCreate(p) \/ WriteCreate(p)

SpecConc == Init /\ [][NextConc]_vars

(* ----------------------- concurrent management ------------------------ *)

\* The collection after the admin root has promoted the issuer key to admin
\* and deactivated the legacy admin record: two active admins, each holding
\* a secret
AdminPair ==
  LET root == Bearer(ValidToken(InitialKeys, RootId))
      promoted == manageKey(InitialKeys,
                            Event("PUT", root, Json([role |-> "admin"]), IssuerId)).store
  IN manageKey(promoted, Event("DELETE", root, NotJson, LegacyId)).store

\* Each of the two admins, with the token it holds, deactivates, demotes or
\* renames either of the two keys
ManageEvents(store) ==
  LET holders == {Bearer(ValidToken(store, k)) : k \in {RootId, IssuerId}} IN
  {Event("DELETE", h, NotJson, t) : h \in holders, t \in {RootId, IssuerId}}
  \cup {Event("PUT", h, Json(b), t) :
          h \in holders, t \in {RootId, IssuerId},
          b \in {[isActive |-> FALSE], [role |-> "issuer"], [description |-> DescXYZ]}}

InitManage ==
  /\ rev \in Revisions
  /\ keys = AdminPair
  /\ certs = InitialCerts
  /\ req = [fn |-> "none"]
  /\ resp = [statusCode |-> 0]
  /\ auth = NoAuth
  /\ nreq = 0
  /\ inflight = NoneInFlight
  /\ ui = PageReady

\* An invocation runs up to its update(): authentication, the lookup of the
\* target and the self-protection tests see the collection as it is now. A
\* refused request ends here; an accepted one holds the patch it is about
\* to write.
ReadManage(p) ==
  /\ inflight[p].pc = "idle"
  /\ \E event \in ManageEvents(keys) :
       LET decided == decideManageKey(keys, event) IN
       inflight' = [inflight EXCEPT ![p] =
                      [pc |-> IF decided.writes THEN "write" ELSE "done",
                       event |-> event,
                       response |-> decided.response,
                       docId |-> decided.targetKeyId,
                       data |-> decided.write,
                       writesSeen |-> WritesDone]]
  /\ UNCHANGED <<rev, keys, certs, req, resp, auth, nreq, ui>>

\* await doc(targetKeyId).update(...) resolves: the patch is merged into the
\* document as it is now, and 200 is returned
WriteManage(p) ==
  /\ inflight[p].pc = "write"
  /\ keys' = updateDoc(keys, inflight[p].docId, inflight[p].data)
  /\ inflight' = [inflight EXCEPT ![p].pc = "done"]
  /\ UNCHANGED <<rev, certs, req, resp, auth, nreq, ui>>

NextManage == \E p \in Clients : ReadManage(p) \/ WriteManage(p)

SpecManage == InitManage /\ [][NextManage]_vars

(* ------------------------- the page (main.ts) ------------------------- *)

\* The characters of a text as one string
RECURSIVE Text(_)
Text(chars) == IF chars = << >> THEN "" ELSE Head(chars) \o Text(Tail(chars))

CodeStored == << "C","E","R","T","-","1" >>
CodeAbsent == << "C","E","R","T","-","2" >>

\* What the visitor may have typed into #certificateNumber
InputTexts ==
  {<< >>, << " "," " >>, CodeStored, << " " >> \o CodeStored \o << " " >>, CodeAbsent}

\* The values of the 'codigo' parameter of the page address
UrlCodes == {<< >>, CodeStored, CodeAbsent}

\* verifyCertificate(code) up to its await: an empty code shows the
\* 'Campo obrigatorio' card and returns; otherwise the button is disabled
\* and the request is sent
verifyCertificate(page, code) ==
  IF code = ""
  THEN [page EXCEPT !.card = "required"]
  ELSE [page EXCEPT !.card = "hidden", !.disabled = TRUE, !.pc = "fetching",
                    !.code = code, !.fetches = @ + 1]

\* fetch rejected: no response

\* What fetch may settle with: the answer of any of the getCertificate
\* handlers (the one that reads 'id' finds no parameter in the page's
\* request), their answer when the store fails, or a network failure
FetchOutcomes(certificates, code) ==
  LET request(g) == GetEvent(g, "GET", NoHeader, IF g = "byId" THEN "" ELSE code) IN
  {[failed |-> FALSE, response |-> getCertificate(certificates, request(g)).response]
     : g \in GetRevisions}
  \cup {[failed |-> FALSE,
          response |-> getCertificate(certificates,
                                      Failing(request("cors"), "lookup", 502)).response]}
  \cup {[failed |-> TRUE]}

\* The 404 branch returning without the finally block
settle_NoFinallyOn404(page, outcome) ==
  IF ~outcome.failed /\ outcome.response.statusCode = 404
  THEN [page EXCEPT !.card = "warning", !.pc = "ready"]
  ELSE LET shown ==
             IF outcome.failed THEN "error"
             ELSE IF outcome.response.statusCode \notin 200 .. 299 THEN "error"
             ELSE IF \A f \in {"code", "name", "event"} : Has(outcome.response.body, f)
                  THEN "success" ELSE "error"
       IN [page EXCEPT !.card = shown,
                       !.modal = IF shown = "success" THEN TRUE ELSE @,
                       !.disabled = FALSE, !.pc = "ready"]

\* verifyCertificate after its await: the try, catch and finally blocks
settle(page, outcome) ==
  LET shown ==
        IF outcome.failed THEN "error"
        ELSE IF outcome.response.statusCode = 404 THEN "warning"
        ELSE IF outcome.response.statusCode \notin 200 .. 299 THEN "error"
        ELSE IF \A f \in {"code", "name", "event"} : Has(outcome.response.body, f)
             THEN "success" ELSE "error"
  IN [page EXCEPT !.card = shown,
                  !.modal = IF shown = "success" THEN TRUE ELSE @,
                  !.disabled = FALSE, !.pc = "ready"]

\* The page after init(): a code in the address is put into the input and
\* verified at once
InitPage ==
  /\ rev \in Revisions
  /\ keys = InitialKeys
  /\ certs = InitialCerts
  /\ req = [fn |-> "none"]
  /\ resp = [statusCode |-> 0]
  /\ auth = NoAuth
  /\ nreq = 0
  /\ inflight = NoneInFlight
  /\ \E codigoFromUrl \in UrlCodes :
       ui = IF codigoFromUrl = << >> THEN PageReady
            ELSE verifyCertificate([PageReady EXCEPT !.input = codigoFromUrl],
                                   Text(codigoFromUrl))

\* click on #searchButton (a disabled button receives no click), with
\* whatever the visitor typed
ClickSearch ==
  /\ ~ui.disabled
  /\ \E typed \in InputTexts :
       /\ Text(trim(typed)) # "" => ui.fetches < MaxVerifications
       /\ ui' = verifyCertificate([ui EXCEPT !.input = typed], Text(trim(typed)))
  /\ UNCHANGED <<rev, keys, certs, req, resp, auth, nreq, inflight>>

\* the fetch of the verification in flight settles
FetchSettles ==
  /\ ui.pc = "fetching"
  /\ \E outcome \in FetchOutcomes(certs, ui.code) : ui' = settle(ui, outcome)
  /\ UNCHANGED <<rev, keys, certs, req, resp, auth, nreq, inflight>>

\* click on the close button, the close icon or the backdrop of the modal
HideModal ==
  /\ ui.modal
  /\ ui' = [ui EXCEPT !.modal = FALSE]
  /\ UNCHANGED <<rev, keys, certs, req, resp, auth, nreq, inflight>>

\* click on 'Ver detalhes novamente'
ViewDetails ==
  /\ ui.card = "success" /\ ~ui.modal
  /\ ui' = [ui EXCEPT !.modal = TRUE]
  /\ UNCHANGED <<rev, keys, certs, req, resp, auth, nreq, inflight>>

NextPage == ClickSearch \/ FetchSettles \/ HideModal \/ ViewDetails

\* The browser settles every fetch: it answers or it fails
SpecPage == InitPage /\ [][NextPage]_vars /\ WF_vars(FetchSettles)

(* ------------------------------ properties ---------------------------- *)

\* The request just handled, and what it carried
Handled(fn)   == req.fn = fn
Method        == req.event.httpMethod
Headers       == req.event.headers
Token         == req.event.headers.token
Body          == req.event.body.json
Authenticated == auth.called /\ auth.result.authenticated

\* The same, for the request handled by the step
Token_n         == req'.event.headers.token
Authenticated_n == auth'.called /\ auth'.result.authenticated

\* No store operation fails during the request handled by the step
StoreWorks_n == req'.event.storeFails = "none"

\* C1: authenticate succeeds for a stored (non-bootstrap) key only if, in the
\* collection it read, the key exists, has a secret, the token verifies
\* against that secret, isActive is true and the role is one of the required
\* roles; an inactive key never authenticates.
C1_AuthenticatedOnlyIfEntitled ==
  [][ (Authenticated_n /\ auth'.result.role # "bootstrap") =>
        LET k == auth'.result.keyId IN
        /\ Has(keys, k)
        /\ Has(keys[k], "secret")
        /\ Token_n.wellFormed /\ Token_n.sig = keys[k].secret /\ ~Token_n.expired
        /\ keys[k].isActive = TRUE
        /\ keys[k].role \in auth'.requiredRoles
        /\ auth'.result.role = keys[k].role ]_vars

\* A stored key has authenticated and the request went through
C1_Witness ==
  /\ Authenticated /\ auth.result.role = "issuer"
  /\ resp.statusCode = 201

\* ---- C2

NamesKey(hdr) == hdr.token.wellFormed /\ Has(hdr.token.payload, "keyId")

TakesBootstrapBranch(hdr, allowBootstrap) ==
  NamesKey(hdr) /\ allowBootstrap /\ hdr.token.payload.keyId = BOOTSTRAP_KEY_ID

ReadsStoredKey(store, hdr, allowBootstrap) ==
  /\ NamesKey(hdr) /\ ~TakesBootstrapBranch(hdr, allowBootstrap)
  /\ Has(store, hdr.token.payload.keyId)

StepOrder == << "header", "keyId", "bootstrap", "found", "secret", "verify", "active", "role" >>

\* Whether a step of the documented order rejects the request, each step
\* judged on its own
StepFails(step, store, hdr, requiredRoles, allowBootstrap) ==
  LET k == hdr.token.payload.keyId IN
  CASE step = "header"    -> hdr.scheme # "Bearer"
    [] step = "keyId"     -> ~NamesKey(hdr)
    [] step = "bootstrap" -> /\ TakesBootstrapBranch(hdr, allowBootstrap)
                             /\ (hdr.token.sig # BOOTSTRAP_SECRET \/ hdr.token.expired)
    [] step = "found"     -> /\ NamesKey(hdr) /\ ~TakesBootstrapBranch(hdr, allowBootstrap)
                             /\ ~Has(store, k)
    [] step = "secret"    -> /\ ReadsStoredKey(store, hdr, allowBootstrap)
                             /\ ~Has(store[k], "secret")
    [] step = "verify"    -> /\ ReadsStoredKey(store, hdr, allowBootstrap)
                             /\ Has(store[k], "secret")
                             /\ (hdr.token.sig # store[k].secret \/ hdr.token.expired)
    [] step = "active"    -> /\ ReadsStoredKey(store, hdr, allowBootstrap)
                             /\ ~store[k].isActive
    [] step = "role"      -> /\ ReadsStoredKey(store, hdr, allowBootstrap)
                             /\ store[k].role \notin requiredRoles

FailingSteps(store, hdr, requiredRoles, allowBootstrap) ==
  {i \in 1..Len(StepOrder) : StepFails(StepOrder[i], store, hdr, requiredRoles, allowBootstrap)}

\* Status and message of a rejecting step
StepVerdict(step, store, hdr) ==
  CASE step = "header"    -> << 401, MsgMissingHeader >>
    [] step = "keyId"     -> << 400, MsgNoKeyId >>
    [] step = "bootstrap" -> << 401, MsgBadBootstrap >>
    [] step = "found"     -> << 403, MsgKeyNotFound >>
    [] step = "secret"    -> << 500, MsgNoSecret >>
    [] step = "verify"    -> IF hdr.token.sig = store[hdr.token.payload.keyId].secret
                             THEN << 401, MsgExpired >> ELSE << 401, MsgBadSignature >>
    [] step = "active"    -> << 403, MsgNotActive >>
    [] step = "role"      -> << 403, MsgRoleDenied(store[hdr.token.payload.keyId].role) >>

\* C2: the outcome of authenticate is that of the first failing step in the
\* order header (401), keyId (400), bootstrap branch, key not found (403),
\* no secret (500), verification (401 expired / 401 invalid), inactive (403),
\* role (403); it succeeds when no step fails.
C2_FirstFailingStepDecides ==
  [][ auth'.called =>
        LET hdr == req'.event.headers
            failing == FailingSteps(keys, hdr, auth'.requiredRoles, auth'.allowBootstrap)
        IN IF failing = {}
           THEN auth'.result.authenticated
           ELSE LET first == CHOOSE i \in failing : \A j \in failing : i <= j
                    verdict == StepVerdict(StepOrder[first], keys, hdr)
                IN /\ ~auth'.result.authenticated
                   /\ auth'.result.statusCode = verdict[1]
                   /\ auth'.result.body.message = verdict[2] ]_vars

\* ---- C3, C4

\* The caller presents an unexpired token signed with the bootstrap secret
PresentsBootstrap(hdr) ==
  /\ hdr.scheme = "Bearer" /\ NamesKey(hdr)
  /\ hdr.token.payload.keyId = BOOTSTRAP_KEY_ID
  /\ hdr.token.sig = BOOTSTRAP_SECRET /\ ~hdr.token.expired

\* The caller presents an unexpired token signed with the secret of the
\* stored, active key k
ActsAs(store, hdr, k) ==
  /\ hdr.scheme = "Bearer" /\ NamesKey(hdr) /\ hdr.token.payload.keyId = k
  /\ Has(store, k) /\ Has(store[k], "secret")
  /\ hdr.token.sig = store[k].secret /\ ~hdr.token.expired
  /\ store[k].isActive

\* A creation request nothing but authorization can stop: role and isActive
\* given, a description of three characters or more that no key carries and
\* whose derived id is free
CleanCreate(store, body) ==
  /\ body.parsable
  /\ Has(body.json, "role") /\ body.json.role \in allowedRoles
  /\ Has(body.json, "isActive") /\ Has(body.json, "description")
  /\ Len(trim(body.json.description)) >= 3
  /\ whereDescription(store, trim(body.json.description)) = {}
  /\ ~Has(store, generateKeyId(trim(body.json.description)))

CarriesNewKey(response, role) ==
  /\ response.statusCode = 201
  /\ Has(response.body, "keyId") \/ Has(response.body, "id")
  /\ Has(response.body, "secret")
  /\ response.body.role = role

\* C3: with the bootstrap credential a reader key can be created (201 with
\* key id, secret and role reader), but a request for role issuer or admin
\* gets 403 and stores nothing.
C3_BootstrapCreatesReadersOnly ==
  [][ (/\ req'.fn = "createKey"
       /\ PresentsBootstrap(req'.event.headers)
       /\ CleanCreate(keys, req'.event.body)) =>
        IF req'.event.body.json.role = "reader"
        THEN CarriesNewKey(resp', "reader")
        ELSE resp'.statusCode = 403 /\ keys' = keys ]_vars

\* C4: a stored active admin or issuer can create a reader key; only an
\* active admin can create an issuer or admin key (an issuer gets 403); a
\* reader key can create nothing.
C4_CreateByStoredRole ==
  [][ \A k \in DOMAIN keys :
        (/\ req'.fn = "createKey"
         /\ ActsAs(keys, req'.event.headers, k)
         /\ CleanCreate(keys, req'.event.body)) =>
          LET acting == keys[k].role
              wanted == req'.event.body.json.role
          IN /\ (wanted = "reader" /\ acting \in {"admin", "issuer"})
                  => resp'.statusCode = 201
             /\ (wanted \in {"issuer", "admin"})
                  => (resp'.statusCode = 201 <=> acting = "admin")
             /\ (wanted \in {"issuer", "admin"} /\ acting = "issuer")
                  => resp'.statusCode = 403
             /\ (acting = "reader") => (resp'.statusCode = 403 /\ keys' = keys) ]_vars

\* ---- C5, C6, C7

\* A patch whose fields all pass validation for target k: an allowed role, a
\* description of three characters or more that no other key carries
ValidPatch(store, k, patch) ==
  /\ Has(patch, "role") => patch.role \in allowedRoles
  /\ Has(patch, "description") =>
       /\ Len(trim(patch.description)) >= 3
       /\ whereDescription(store, trim(patch.description)) \subseteq {k}

\* A patch that would lock its own admin out
LocksOut(patch) ==
  \/ Has(patch, "isActive") /\ patch.isActive = FALSE
  \/ Has(patch, "role") /\ patch.role # "admin"

\* The identifier names key k: it is k's id or k's description
Addresses(store, identifier, k) ==
  \/ identifier = k
  \/ Has(store[k], "description") /\ identifier = store[k].description

SelfUpdate(store, event, k) ==
  /\ event.httpMethod = "PUT"
  /\ ActsAs(store, event.headers, k) /\ store[k].role = "admin"
  /\ Addresses(store, event.target, k)
  /\ event.body.parsable
  /\ ValidPatch(store, k, event.body.json)
  /\ LocksOut(event.body.json)

C6_Deactivate ==
  [][ \A k \in DOMAIN keys :
        (/\ req'.fn = "manageKey" /\ req'.event.httpMethod = "DELETE"
         /\ StoreWorks_n
         /\ ActsAs(keys, req'.event.headers, k) /\ keys[k].role = "admin"
         /\ \/ Has(keys, req'.event.target)
            \/ Cardinality(whereDescription(keys, req'.event.target)) = 1) =>
          LET target == IF Has(keys, req'.event.target) THEN req'.event.target
                        ELSE CHOOSE t \in whereDescription(keys, req'.event.target) : TRUE
          IN IF target = k
             THEN /\ resp'.statusCode = 400 /\ resp'.body.message = MsgSelfDeactivate
                  /\ keys' = keys /\ keys'[target].isActive = TRUE
             ELSE /\ resp'.statusCode = 200
                  /\ keys'[target].isActive = FALSE
                  /\ keys'[target].deactivatedAt = serverTimestamp
                  /\ keys'[target].deactivatedBy = k
                  /\ \A o \in DOMAIN keys \ {target} : keys'[o] = keys[o] ]_vars

\* Another key was deactivated, addressed by its description
C6_Witness ==
  /\ Handled("manageKey") /\ Method = "DELETE" /\ resp.statusCode = 200
  /\ req.event.target # resp.body.id
  /\ keys[resp.body.id].isActive = FALSE
  /\ keys[resp.body.id].deactivatedBy = auth.result.keyId

\* C7: every change to an existing key record is made by a request that
\* authenticated as a stored, active admin key; an issuer or reader token on
\* manageKey gets 403 'Role ... not authorized' and changes nothing.
C7_OnlyAdminsChangeKeys ==
  [][ /\ (\E k \in DOMAIN keys : ~Has(keys', k) \/ keys'[k] # keys[k]) =>
           /\ Authenticated_n
           /\ auth'.result.role = "admin"
           /\ ActsAs(keys, req'.event.headers, auth'.result.keyId)
           /\ keys[auth'.result.keyId].role = "admin"
      /\ \A k \in DOMAIN keys :
           (/\ req'.fn = "manageKey" /\ req'.event.target # << >>
            /\ ActsAs(keys, req'.event.headers, k)
            /\ keys[k].role \in {"issuer", "reader"}) =>
             /\ resp'.statusCode = 403
             /\ resp'.body.message = MsgRoleDenied(keys[k].role)
             /\ keys' = keys ]_vars

\* An issuer tried to deactivate a key and was refused
C7_Witness ==
  /\ Handled("manageKey") /\ NamesKey(Headers)
  /\ Has(keys, Token.payload.keyId) /\ keys[Token.payload.keyId].role = "issuer"
  /\ Token.sig = "secret-issuer" /\ ~Token.expired
  /\ resp.statusCode = 403 /\ resp.body.message = MsgRoleDenied("issuer")

\* ---- C8, C9, C10

\* C8: no two key records carry the same description.
C8_DescriptionsUnique ==
  \A a \in DOMAIN keys, b \in DOMAIN keys :
    (a # b /\ Has(keys[a], "description") /\ Has(keys[b], "description"))
      => keys[a].description # keys[b].description

\* The caller of a creation request is entitled to create the role it asks for
MayCreate(store, event) ==
  \E k \in DOMAIN store :
    ActsAs(store, event.headers, k) /\ store[k].role = "admin"

SameTrimmedDescription(bodyA, bodyB) ==
  /\ bodyA.parsable /\ bodyB.parsable
  /\ Has(bodyA.json, "description") /\ Has(bodyB.json, "description")
  /\ trim(bodyA.json.description) = trim(bodyB.json.description)

BodyFields(response) ==
  IF ~Has(response, "body") THEN {}
  ELSE DOMAIN response.body
       \cup (IF Has(response.body, "updates") THEN DOMAIN response.body.updates ELSE {})
       \cup (IF Has(response.body, "keys")
             THEN UNION {DOMAIN entry : entry \in response.body.keys} ELSE {})

\* The key id a creation response carries
CreatedId(response) ==
  IF Has(response.body, "keyId") THEN response.body.keyId ELSE response.body.id

\* C10: only the 201 response of createKey carries a secret, and the secret it
\* carries is that of the record the request created; the listing, the update
\* and deactivate responses and every error response carry none, and no
\* request changes the secret field of an existing record.
C10_SecretOnlyAtCreation ==
  /\ [](("secret" \in BodyFields(resp)) => (Handled("createKey") /\ resp.statusCode = 201))
  /\ [][ /\ ("secret" \in BodyFields(resp')) =>
              /\ ~Has(keys, CreatedId(resp'))
              /\ Has(keys', CreatedId(resp'))
              /\ keys'[CreatedId(resp')].secret = resp'.body.secret
         /\ \A k \in DOMAIN keys :
              /\ Has(keys', k)
              /\ Has(keys'[k], "secret") = Has(keys[k], "secret")
              /\ Has(keys[k], "secret") => keys'[k].secret = keys[k].secret ]_vars

\* After a key was created, an update succeeded whose body carried a secret
\* field
C10_Witness ==
  /\ nreq = 2
  /\ Handled("manageKey") /\ Method = "PUT" /\ resp.statusCode = 200
  /\ Has(Body, "secret")
  /\ \E k \in DOMAIN keys \ DOMAIN InitialKeys : Has(keys[k], "secret")

\* ---- C11

\* C11: a well-formed token whose keyId names no stored record, and is not
\* the bootstrap id on a bootstrap-enabled call, yields 403 'API key not
\* found' whatever its signature or expiry, never 404 or 500.
C11_UnknownKeyIs403 ==
  [][ (/\ auth'.called
       /\ req'.event.headers.scheme = "Bearer"
       /\ NamesKey(req'.event.headers)
       /\ ~TakesBootstrapBranch(req'.event.headers, auth'.allowBootstrap)
       /\ ~Has(keys, Token_n.payload.keyId)) =>
        /\ ~auth'.result.authenticated
        /\ auth'.result.statusCode = 403
        /\ auth'.result.body.message = MsgKeyNotFound
        /\ resp'.statusCode = 403
        /\ resp'.body.message = MsgKeyNotFound
        /\ keys' = keys ]_vars

\* An expired token naming a key that is not stored, signed with the secret
\* of a stored key, was refused
C11_Witness ==
  /\ auth.called /\ Headers.scheme = "Bearer" /\ NamesKey(Headers)
  /\ Token.expired /\ Token.sig = "secret-root"
  /\ ~Has(keys, Token.payload.keyId)
  /\ Token.payload.keyId # BOOTSTRAP_KEY_ID
  /\ resp.statusCode = 403 /\ resp.body.message = MsgKeyNotFound

\* ---- C12

\* C12: whenever authenticate is called with a header that is absent or does
\* not use the Bearer scheme, it answers 401 'Authentication required:
\* Missing or invalid Authorization header', and that is the response of the
\* request.
C12_NonBearerIs401 ==
  [][ (auth'.called /\ req'.event.headers.scheme # "Bearer") =>
        /\ ~auth'.result.authenticated
        /\ auth'.result.statusCode = 401
        /\ auth'.result.body.message = MsgMissingHeader
        /\ resp'.statusCode = 401
        /\ resp'.body.message = MsgMissingHeader
        /\ keys' = keys ]_vars

\* ---- C13

\* C13: authenticate returns the bootstrap identity only to createKey POST
\* requests, which call it with allowBootstrap = TRUE; on manageKey,
\* writeCertificate, deleteCertificate and the key listing a Bearer token
\* carrying the bootstrap keyId, whatever its signature, is answered 403 'API
\* key not found' and neither collection changes.
C13_BootstrapOnlyCreates ==
  [][ /\ (Authenticated_n /\ (auth'.result.role = "bootstrap"
                              \/ auth'.result.keyId = BOOTSTRAP_KEY_ID)) =>
           /\ req'.fn = "createKey" /\ req'.event.httpMethod = "POST"
           /\ auth'.allowBootstrap
           /\ certs' = certs
      /\ (/\ req'.fn \in {"manageKey", "writeCertificate", "deleteCertificate", "listKeys"}
          /\ auth'.called
          /\ req'.event.headers.scheme = "Bearer"
          /\ NamesKey(req'.event.headers)
          /\ Token_n.payload.keyId = BOOTSTRAP_KEY_ID) =>
           /\ ~auth'.allowBootstrap
           /\ resp'.statusCode = 403
           /\ resp'.body.message = MsgKeyNotFound
           /\ keys' = keys /\ certs' = certs ]_vars

\* The genuine bootstrap token was presented to delete a stored certificate
\* and was refused
C13_Witness ==
  /\ Handled("deleteCertificate") /\ auth.called
  /\ NamesKey(Headers) /\ Token.payload.keyId = BOOTSTRAP_KEY_ID
  /\ Token.sig = BOOTSTRAP_SECRET /\ ~Token.expired
  /\ Has(certs, req.event.target)
  /\ resp.statusCode = 403

\* ---- C14

\* C14: a createKey or manageKey request that ends with a status other than
\* 201 or 200 leaves the keys collection as it was; in particular a request
\* that authenticate refuses changes nothing.
C14_FailureWritesNothing ==
  [][ /\ (/\ req'.fn \in {"createKey", "listKeys", "manageKey"}
          /\ resp'.statusCode \notin {200, 201}) => keys' = keys
      /\ (auth'.called /\ ~auth'.result.authenticated) =>
           (keys' = keys /\ certs' = certs) ]_vars

\* An update was refused after authentication and target resolution, at the
\* description-uniqueness test
C14_Witness ==
  /\ Handled("manageKey") /\ Method = "PUT" /\ Authenticated
  /\ resp.statusCode = 409 /\ resp.body.message = MsgDupDescription

\* ---- C15

\* C15: a creation request by an admin whose description trims to fewer
\* than three characters returns 400 and writes nothing.
C15_ShortDescriptionIs400 ==
  [][ (/\ req'.fn = "createKey" /\ req'.event.httpMethod = "POST"
       /\ MayCreate(keys, req'.event)
       /\ req'.event.body.parsable
       /\ Has(req'.event.body.json, "description")
       /\ Len(trim(req'.event.body.json.description)) < 3) =>
        /\ resp'.statusCode = 400
        /\ keys' = keys ]_vars

\* ---- C16

\* C16: a creation request by an authenticated admin whose body lacks role
\* or isActive gets 400 'Missing required key data...', one whose role is
\* outside {admin, issuer, reader} gets 400 'Invalid role provided...', and
\* neither stores anything.
C16_BadBodyIs400 ==
  [][ (/\ req'.fn = "createKey" /\ req'.event.httpMethod = "POST"
       /\ MayCreate(keys, req'.event)
       /\ req'.event.body.parsable) =>
        LET body == req'.event.body.json IN
        /\ (~Has(body, "role") \/ ~Has(body, "isActive")) =>
             /\ resp'.statusCode = 400 /\ resp'.body.message = MsgMissingData
             /\ keys' = keys
        /\ (Has(body, "role") /\ Has(body, "isActive")
            /\ body.role \notin {"admin", "issuer", "reader"}) =>
             /\ resp'.statusCode = 400
             /\ keys' = keys ]_vars

\* An admin asked for a role that does not exist and was refused
C16_Witness ==
  /\ Handled("createKey") /\ Method = "POST" /\ req.event.body.parsable
  /\ Has(Body, "role") /\ Body.role = "superadmin" /\ Has(Body, "isActive")
  /\ NamesKey(Headers)
  /\ Token.payload.keyId = RootId /\ Token.sig = "secret-root" /\ ~Token.expired
  /\ resp.statusCode = 400
  /\ resp.body.message \in {MsgInvalidRoleR1, MsgInvalidRoleR2}

\* ---- C17

\* C17: no step removes a key record; a successful deactivation leaves the
\* record in place with its description; and a creation request by an
\* authorized caller whose trimmed description is that of a deactivated
\* record is refused with 409.
C17_IdsAndDescriptionsStayReserved ==
  [][ /\ DOMAIN keys \subseteq DOMAIN keys'
      /\ \A k \in DOMAIN keys :
           (/\ req'.fn = "manageKey" /\ req'.event.httpMethod = "DELETE"
            /\ keys[k].isActive /\ ~keys'[k].isActive) =>
             (Has(keys[k], "description") =>
                /\ Has(keys'[k], "description")
                /\ keys'[k].description = keys[k].description)
      /\ (/\ req'.fn = "createKey" /\ req'.event.httpMethod = "POST"
          /\ MayCreate(keys, req'.event)
          /\ req'.event.body.parsable
          /\ Has(req'.event.body.json, "role") /\ Has(req'.event.body.json, "isActive")
          /\ req'.event.body.json.role \in allowedRoles
          /\ Has(req'.event.body.json, "description")
          /\ \E k \in DOMAIN keys :
               /\ Has(keys[k], "deactivatedAt") /\ ~keys[k].isActive
               /\ Has(keys[k], "description")
               /\ keys[k].description = trim(req'.event.body.json.description)) =>
           /\ resp'.statusCode = 409
           /\ keys' = keys ]_vars

\* ---- C18

\* The caller presents an unexpired Bearer token signed with the secret of
\* the stored key k, active or not
HoldsTokenOf(store, hdr, k) ==
  /\ hdr.scheme = "Bearer" /\ NamesKey(hdr) /\ hdr.token.payload.keyId = k
  /\ Has(store, k) /\ Has(store[k], "secret")
  /\ hdr.token.sig = store[k].secret /\ ~hdr.token.expired

Changed == {k \in DOMAIN keys : keys'[k] # keys[k]}

\* C19: for an authenticated manageKey request during which the store
\* works, if the identifier is the id
\* of a record that record is the target, even when another record has the
\* identifier as its description; otherwise a single description match is
\* the target; no match gives 404 and several matches give 400, and then
\* nothing changes.
C19_TargetResolution ==
  [][ (req'.fn = "manageKey" /\ Authenticated_n /\ StoreWorks_n) =>
        LET identifier == req'.event.target
            matches == whereDescription(keys, identifier)
            target == IF Has(keys, identifier) THEN identifier
                      ELSE CHOOSE m \in matches : TRUE
        IN IF Has(keys, identifier) \/ Cardinality(matches) = 1
           THEN /\ Changed \subseteq {target}
                /\ DOMAIN keys' = DOMAIN keys
                /\ resp'.statusCode \notin {404}
                /\ resp'.statusCode = 200 =>
                     /\ resp'.body.id = target
                     /\ LET stamp == IF req'.event.httpMethod = "PUT"
                                     THEN "updatedBy" ELSE "deactivatedBy"
                        IN /\ Has(keys'[target], stamp)
                           /\ keys'[target][stamp] = auth'.result.keyId
           ELSE /\ keys' = keys
                /\ IF matches = {}
                   THEN resp'.statusCode = 404 /\ resp'.body.message = MsgTargetNotFound
                   ELSE resp'.statusCode = 400 /\ resp'.body.message = MsgTargetAmbiguous ]_vars

\* A request named a record by its id while another record carried that
\* string as its description, and the record with that id was changed
C19_Witness ==
  /\ Handled("manageKey") /\ resp.statusCode = 200
  /\ Has(keys, req.event.target)
  /\ \E o \in DOMAIN keys \ {req.event.target} :
       Has(keys[o], "description") /\ keys[o].description = req.event.target
  /\ resp.body.id = req.event.target
  /\ Has(keys[req.event.target], "updatedBy") \/ Has(keys[req.event.target], "deactivatedBy")


\* The answer of the key functions to a request, in the state before it
Respond(fn, event) ==
  IF fn = "listKeys" THEN listKeys_r1(keys, event)
  ELSE IF fn = "createKey"
  THEN (IF rev = "r1" THEN createKey_r1(keys, event, nreq + 1)
        ELSE createKey_r2(keys, event, nreq + 1))
  ELSE manageKey(keys, event)

\* The step handled a key request during which a store operation failed:
\* the request ended otherwise than it does when the store works
StoreFailed_n ==
  /\ req'.fn \in {"listKeys", "createKey", "manageKey"}
  /\ req'.event.storeFails # "none"
  /\ Respond(req'.fn, req'.event)
       # Respond(req'.fn, [req'.event EXCEPT !.storeFails = "none"])

\* C20: a store failure (read or write) at any step of authenticate,
\* createKey or manageKey, the target lookup and the description-uniqueness
\* query of manageKey included, ends the request with a 500 response and
\* leaves the keys collection as it was.
C20_StoreFailureIs500 ==
  [][ StoreFailed_n => (resp'.statusCode = 500 /\ keys' = keys) ]_vars


\* ---- C21

\* Two invocations that both read the collection before any write reached it
BothReadFirst(p, q) ==
  /\ p # q
  /\ inflight[p].pc # "idle" /\ inflight[q].pc # "idle"
  /\ inflight[p].writesSeen = 0 /\ inflight[q].writesSeen = 0

\* C21: two concurrent creations with the same description, each of which
\* would succeed alone, whose uniqueness reads both happen before either
\* write: both pass the check (neither is answered 409), and once an
\* invocation has finished its document is in the collection.
C21_ConcurrentCreatesBothWrite ==
  \A p \in Clients, q \in Clients :
    (/\ BothReadFirst(p, q)
     /\ SameTrimmedDescription(inflight[p].event.body, inflight[q].event.body)
     /\ createKey(InitialKeys, inflight[p].event, p).response.statusCode = 201
     /\ createKey(InitialKeys, inflight[q].event, q).response.statusCode = 201) =>
      /\ inflight[p].response.statusCode = 201
      /\ inflight[p].pc = "done" =>
           /\ Has(keys, inflight[p].docId)
           /\ keys[inflight[p].docId].description = inflight[p].data.description
           /\ keys[inflight[p].docId] \in {inflight[c].data : c \in Clients}

\* Both invocations finished with 201 for the same description, and both
\* had read before either wrote
C21_Witness ==
  \E p \in Clients, q \in Clients :
    /\ BothReadFirst(p, q)
    /\ inflight[p].pc = "done" /\ inflight[q].pc = "done"
    /\ SameTrimmedDescription(inflight[p].event.body, inflight[q].event.body)
    /\ inflight[p].response.statusCode = 201 /\ inflight[q].response.statusCode = 201
    /\ inflight[p].data.secret # inflight[q].data.secret


\* C22: a createKey POST without an Authorization header is answered 401
\* whatever its body is (absent, malformed, fields missing, description
\* taken): never a 400 or 409 that depends on the body or on the store.
C22_MissingHeaderIs401 ==
  [][ (/\ req'.fn = "createKey" /\ req'.event.httpMethod = "POST"
       /\ req'.event.headers = NoHeader /\ StoreWorks_n) =>
        resp'.statusCode = 401 /\ keys' = keys ]_vars


\* ---- C23

\* The request handled by the step carries a valid token of a stored active
\* key with one of the roles
ActsWithRole_n(roles) ==
  \E k \in DOMAIN keys : ActsAs(keys, req'.event.headers, k) /\ keys[k].role \in roles

\* C23: writeCertificate succeeds only for an active admin or issuer key,
\* deleteCertificate only for an active admin key; getCertificate makes no
\* authenticate call, answers the same with and without a credential and
\* changes nothing; the certificates change only by a successful write or
\* delete; and a request made with a reader key changes neither collection.
C23_CertificateRoles ==
  [][ /\ (req'.fn = "writeCertificate" /\ resp'.statusCode = 201) =>
           ActsWithRole_n({"admin", "issuer"})
      /\ (req'.fn = "deleteCertificate" /\ resp'.statusCode = 200) =>
           ActsWithRole_n({"admin"})
      /\ req'.fn = "getCertificate" =>
           /\ ~auth'.called
           /\ certs' = certs /\ keys' = keys
           /\ resp' = getCertificate(certs, [req'.event EXCEPT !.headers = NoHeader]).response
      /\ certs' # certs =>
           \/ req'.fn = "writeCertificate" /\ resp'.statusCode = 201
           \/ req'.fn = "deleteCertificate" /\ resp'.statusCode = 200
      /\ ActsWithRole_n({"reader"}) => (certs' = certs /\ keys' = keys) ]_vars

\* A reader key asked to write a certificate and was refused with 403, and
\* nothing changed
C23_Witness ==
  /\ Handled("writeCertificate") /\ Method = "POST"
  /\ \E k \in DOMAIN keys : ActsAs(keys, Headers, k) /\ keys[k].role = "reader"
  /\ resp.statusCode = 403
  /\ ~Has(certs, Body.code)


\* ---- C24

\* The body of the request handled by the step names a code, a name and an
\* event
CompleteCertificate_n ==
  /\ req'.event.body.parsable
  /\ \A f \in {"code", "name", "event"} :
       Has(req'.event.body.json, f) /\ req'.event.body.json[f] # ""

C25_CertificateLifecycle ==
  [][ /\ (/\ req'.fn = "getCertificate" /\ req'.event.httpMethod = "GET"
           /\ req'.event.target # "" /\ StoreWorks_n) =>
           LET c == req'.event.target IN
           IF Has(certs, c)
           THEN /\ resp'.statusCode = 200
                /\ resp'.body.code = c /\ resp'.body.name = certs[c].name
           ELSE resp'.statusCode = 404 /\ resp'.body.message = MsgCertNotFound
      /\ (req'.fn = "writeCertificate" /\ resp'.statusCode = 201) =>
           LET data == req'.event.body.json IN
           /\ ~Has(certs, data.code) /\ Has(certs', data.code)
           /\ certs'[data.code].code = data.code /\ certs'[data.code].name = data.name
      /\ \A c \in DOMAIN certs :
           IF Has(certs', c) THEN certs'[c] = certs[c]
           ELSE /\ req'.fn = "deleteCertificate" /\ resp'.statusCode = 200
                /\ req'.event.target = c
      /\ (req'.fn = "deleteCertificate" /\ resp'.statusCode = 200) =>
           Has(certs, req'.event.target) /\ ~Has(certs', req'.event.target)
      /\ (/\ req'.fn = "deleteCertificate" /\ req'.event.httpMethod = "DELETE"
           /\ Authenticated_n /\ StoreWorks_n
           /\ req'.event.target # "" /\ ~Has(certs, req'.event.target)) =>
           /\ resp'.statusCode = 404 /\ resp'.body.message = MsgCertNotFound
           /\ certs' = certs ]_vars

\* A certificate written by the request before was read back with its code
\* and name
C25_Witness ==
  /\ nreq = 2 /\ Handled("getCertificate") /\ resp.statusCode = 200
  /\ ~Has(InitialCerts, req.event.target)
  /\ resp.body.code = req.event.target
  /\ resp.body.name = CertBody(req.event.target).json.name


\* ---- C26

\* C26: a verification started with a non-empty code disables the search
\* button and sends one request; a verification with an empty code shows
\* the 'required' card, sends no request and leaves the button enabled; and
\* whenever the button is disabled it is eventually enabled again, whatever
\* the fetch settles with.
C26_ButtonReenabled ==
  /\ [][ (ui.pc = "ready" /\ ui' # ui /\ ui'.modal = ui.modal) =>
          IF Text(trim(ui'.input)) = ""
          THEN /\ ui'.card = "required" /\ ui'.fetches = ui.fetches
               /\ ~ui'.disabled /\ ui'.pc = "ready"
          ELSE /\ ui'.disabled /\ ui'.pc = "fetching"
               /\ ui'.fetches = ui.fetches + 1 ]_vars
  /\ [](ui.pc = "fetching" => ui.disabled)
  /\ (ui.disabled ~> ~ui.disabled)

\* A verification of a stored code ended with the error card (the fetch
\* failed or brought an HTTP error) and the button is enabled again
C26_Witness ==
  /\ ui.fetches > 0 /\ ui.pc = "ready" /\ ~ui.disabled
  /\ ui.card = "error" /\ ui.code = "CERT-1"


\* ---- C27

\* The fields in which two documents differ
FieldsChanged(old, new) ==
  {f \in DOMAIN old \cup DOMAIN new :
     ~(f \in DOMAIN old /\ f \in DOMAIN new /\ old[f] = new[f])}

\* C27: a successful PUT changes, in the target alone, only fields among
\* those of role, isActive and description that the body carries, plus
\* updatedAt and updatedBy; a successful DELETE changes only isActive,
\* deactivatedAt and deactivatedBy; id, secret, createdAt and createdBy of
\* the target and every other record stay as they were.
C27_UpdateFrame ==
  [][ (req'.fn = "manageKey" /\ resp'.statusCode = 200) =>
        LET target == resp'.body.id
            allowed == IF req'.event.httpMethod = "PUT"
                       THEN (DOMAIN req'.event.body.json
                               \cap {"role", "isActive", "description"})
                            \cup {"updatedAt", "updatedBy"}
                       ELSE {"isActive", "deactivatedAt", "deactivatedBy"}
        IN /\ DOMAIN keys' = DOMAIN keys /\ Has(keys, target)
           /\ FieldsChanged(keys[target], keys'[target]) \subseteq allowed
           /\ \A f \in {"secret", "createdAt", "createdBy"} :
                /\ Has(keys'[target], f) = Has(keys[target], f)
                /\ Has(keys[target], f) => keys'[target][f] = keys[target][f]
           /\ \A o \in DOMAIN keys \ {target} : keys'[o] = keys[o] ]_vars

\* A PUT changed the role of a key that was created with createdAt and
\* createdBy, which it kept together with its secret
C27_Witness ==
  /\ Handled("manageKey") /\ Method = "PUT" /\ resp.statusCode = 200
  /\ Has(Body, "role") /\ ~Has(Body, "description")
  /\ LET t == resp.body.id IN
       /\ t = IssuerId /\ keys[t].role = Body.role /\ keys[t].role # InitialKeys[t].role
       /\ keys[t].secret = InitialKeys[t].secret
       /\ keys[t].createdBy = InitialKeys[t].createdBy
       /\ keys[t].description = InitialKeys[t].description


\* ---- C28

\* C28: an authenticated PUT on an existing key whose body is an object
\* with none of role, isActive and description (only other fields, or no
\* field) is answered 400 'No valid fields to update' and writes nothing.
C28_EmptyPatchIs400 ==
  [][ (/\ req'.fn = "manageKey" /\ req'.event.httpMethod = "PUT"
       /\ Authenticated_n /\ StoreWorks_n
       /\ resolveTarget(keys, req'.event.target).found
       /\ req'.event.body.parsable
       /\ DOMAIN req'.event.body.json \cap {"role", "isActive", "description"} = {}) =>
        /\ resp'.statusCode = 400 /\ resp'.body.message = MsgNoFields
        /\ keys' = keys ]_vars

\* A PUT with an empty object was refused and the target carries no stamp
C28_Witness ==
  /\ Handled("manageKey") /\ Method = "PUT" /\ Authenticated
  /\ req.event.body.parsable /\ DOMAIN Body = {}
  /\ resp.statusCode = 400 /\ resp.body.message = MsgNoFields
  /\ keys = InitialKeys


\* ---- C29

\* C29: an authenticated PUT whose description, trimmed, is the current
\* description of the target is not answered 409, and is answered 200 when
\* the body carries nothing else; a PUT whose trimmed description is the
\* description of another record is answered 409 and changes nothing.
C29_OwnDescriptionAllowed ==
  [][ (/\ req'.fn = "manageKey" /\ req'.event.httpMethod = "PUT"
       /\ Authenticated_n /\ StoreWorks_n
       /\ resolveTarget(keys, req'.event.target).found
       /\ req'.event.body.parsable
       /\ Has(req'.event.body.json, "description")
       /\ Len(trim(req'.event.body.json.description)) >= 3
       /\ Has(req'.event.body.json, "role") => req'.event.body.json.role \in allowedRoles) =>
        LET t == resolveTarget(keys, req'.event.target).targetKeyId
            d == trim(req'.event.body.json.description)
        IN IF Has(keys[t], "description") /\ keys[t].description = d
           THEN /\ resp'.statusCode # 409
                /\ DOMAIN req'.event.body.json = {"description"} =>
                     /\ resp'.statusCode = 200
                     /\ keys'[t].description = d
           ELSE whereDescription(keys, d) \ {t} # {} =>
                  /\ resp'.statusCode = 409 /\ resp'.body.message = MsgDupDescription
                  /\ keys' = keys ]_vars

\* A key was given, padded with spaces, the description it already had, and
\* the update succeeded
C29_Witness ==
  /\ Handled("manageKey") /\ Method = "PUT" /\ resp.statusCode = 200
  /\ Has(Body, "description") /\ Body.description # trim(Body.description)
  /\ LET t == resp.body.id IN
       /\ Has(InitialKeys, t) /\ Has(InitialKeys[t], "description")
       /\ InitialKeys[t].description = trim(Body.description)
       /\ keys[t].description = InitialKeys[t].description
       /\ Has(keys[t], "updatedBy")


\* ---- C30

\* The id generateKeyId derives for a creation request: from the trimmed
\* description, or from the role when the body has no description
DerivedId(keyData) ==
  generateKeyId(IF Has(keyData, "description") /\ keyData.description # << >>
                THEN trim(keyData.description) ELSE RoleChars(keyData.role))

\* C30: a creation by an admin, with a valid role and isActive, whose
\* derived id is the id of an existing record is answered 409 and leaves
\* every record, that one and its secret included, as it was; so a second
\* creation without description for the same role is refused with 409.
C30_DerivedIdCollisionIs409 ==
  [][ (/\ req'.fn = "createKey" /\ req'.event.httpMethod = "POST" /\ StoreWorks_n
       /\ MayCreate(keys, req'.event)
       /\ req'.event.body.parsable
       /\ Has(req'.event.body.json, "role") /\ req'.event.body.json.role \in allowedRoles
       /\ Has(req'.event.body.json, "isActive")
       /\ Has(keys, DerivedId(req'.event.body.json))) =>
        resp'.statusCode = 409 /\ keys' = keys ]_vars

\* ---- C31

\* C31: a createKey request answered 201 stores the secret that its response
\* carries; that secret is the one supplied in the request body when the body
\* carries one, and otherwise a generated one that no stored record had.
C31_SuppliedSecretIsKept ==
  [][ (req'.fn = "createKey" /\ resp'.statusCode = 201) =>
        LET k == CreatedId(resp')
            keyData == req'.event.body.json
        IN /\ Has(keys', k)
           /\ keys'[k].secret = resp'.body.secret
           /\ IF Has(keyData, "secret")
              THEN resp'.body.secret = keyData.secret
              ELSE \A j \in DOMAIN keys :
                     Has(keys[j], "secret") => keys[j].secret # resp'.body.secret ]_vars

\* ---- C32

\* C32: the record stored by a createKey request answered 201 has createdBy
\* equal to the key id the request authenticated as (the bootstrap id for a
\* bootstrap token), and carries no updatedBy or deactivatedBy, whatever
\* audit fields the request body supplied.
C32_CreatedByIsActor ==
  [][ (req'.fn = "createKey" /\ resp'.statusCode = 201) =>
        LET k == CreatedId(resp') IN
        /\ Has(keys', k)
        /\ Has(keys'[k], "createdBy")
        /\ keys'[k].createdBy = auth'.result.keyId
        /\ ~Has(keys'[k], "updatedBy")
        /\ ~Has(keys'[k], "deactivatedBy") ]_vars

\* ---- C33

\* C33: every stored key record has a role among admin, issuer and reader,
\* never the pseudo-role bootstrap, and no record is stored under the
\* bootstrap identifier.
C33_StoredRoles ==
  \A k \in DOMAIN keys :
    /\ keys[k].role \in {"admin", "issuer", "reader"}
    /\ keys[k].role # "bootstrap"
    /\ k # BOOTSTRAP_KEY_ID

\* The second request, authenticated with the bootstrap token, created a
\* key while the initial records are as they were
C33_Witness ==
  /\ nreq = 2
  /\ Handled("createKey") /\ resp.statusCode = 201
  /\ auth.called /\ auth.result.authenticated
  /\ auth.result.keyId = BOOTSTRAP_KEY_ID
  /\ Has(keys, CreatedId(resp))
  /\ \A k \in DOMAIN InitialKeys : keys[k] = InitialKeys[k]

\* ---- C34

ActiveAdmins(store) == {k \in DOMAIN store : store[k].role = "admin" /\ store[k].isActive}

\* C34: the store holds an active admin at the start, and when requests are
\* handled one at a time it holds one after every sequence of createKey and
\* manageKey requests.
C34_ActiveAdminRemains == ActiveAdmins(keys) # {}

\* The only other admin record was deactivated, and the last active admin's
\* request to deactivate its own key was refused
C34_Witness ==
  /\ nreq = 2
  /\ Handled("manageKey") /\ resp.statusCode = 400
  /\ resp.body.message = MsgSelfDeactivate
  /\ ActiveAdmins(keys) = {auth.result.keyId}
  /\ ActiveAdmins(InitialKeys) \ ActiveAdmins(keys) # {}

\* ---- C35

\* C35: when manageKey requests of distinct admins interleave at their store
\* reads and writes, the collection still holds an active admin: two active
\* admins that deactivate or demote each other at the same time do not
\* leave it without one.
C35_ActiveAdminRemainsInterleaved ==
  \E k \in DOMAIN keys : keys[k].role = "admin" /\ keys[k].isActive

\* ---- C36

\* The secrets a client holds that was given the bootstrap secret only: the
\* bootstrap secret and the secrets of reader keys
BootstrapClientSecrets(store) ==
  {BOOTSTRAP_SECRET}
  \cup {store[k].secret : k \in {i \in DOMAIN store : /\ Has(store[i], "secret")
                                                      /\ store[i].role = "reader"}}

\* The request could have been sent by that client: it carries no token, a
\* malformed one, one with a signature made without any stored secret, or
\* one signed with a secret the client holds
FromBootstrapClient_n ==
  \/ req'.event.headers.scheme = "none"
  \/ ~Token_n.wellFormed
  \/ Token_n.sig \in {"forged"} \cup BootstrapClientSecrets(keys)

\* C36: no request of a client that holds only the bootstrap secret and the
\* secrets of reader keys brings a key record with role admin or issuer into
\* existence, changes the role, isActive or description of an existing key,
\* or writes or deletes a certificate.
C36_BootstrapClientCannotEscalate ==
  [][ FromBootstrapClient_n =>
        /\ \A k \in DOMAIN keys' \ DOMAIN keys : keys'[k].role = "reader"
        /\ \A k \in DOMAIN keys :
             /\ Has(keys', k)
             /\ Pick(keys'[k], {"role", "isActive", "description"})
                  = Pick(keys[k], {"role", "isActive", "description"})
        /\ certs' = certs ]_vars

\* ---- C37

\* The request as it would be with a token that carries the keyId only
WithoutExtraClaims(event) ==
  [event EXCEPT !.headers.token.payload = Pick(@, {"keyId"})]

\* C37: authenticate decides from the stored record alone. A request of a
\* key handler whose token carries payload claims besides keyId gets the
\* response, the authentication result and the store of the same request
\* with a token of the same signature that carries the keyId only, and in
\* every handler the role returned for a stored key is the role of its
\* record.
C37_ExtraClaimsIgnored ==
  [][ (auth'.called /\ Token_n.wellFormed /\ Has(Token_n.payload, "keyId")) =>
        /\ (/\ req'.fn \in {"listKeys", "createKey", "manageKey"}
            /\ DOMAIN Token_n.payload # {"keyId"}) =>
             LET plain == Respond(req'.fn, WithoutExtraClaims(req'.event)) IN
             /\ plain.response = resp'
             /\ plain.auth = auth'
             /\ plain.store = keys'
        /\ (Authenticated_n /\ Has(keys, auth'.result.keyId)) =>
             auth'.result.role = keys[auth'.result.keyId].role ]_vars

\* The issuer key's holder sent a token that also claims the role admin and
\* was authenticated with the role of the stored record
C37_Witness ==
  /\ auth.called /\ auth.result.authenticated
  /\ Has(req.event.headers.token.payload, "role")
  /\ req.event.headers.token.payload.role = "admin"
  /\ auth.result.role = "issuer"
  /\ resp.statusCode = 201

\* ---- C38

\* C38: when createKey requests interleave, every 201 response handed out
\* so far names a record that is stored with the secret the response
\* carried: no later or concurrent request overwrites an issued credential.
C38_IssuedSecretsStayStored ==
  \A p \in Clients :
    (inflight[p].pc = "done" /\ inflight[p].response.statusCode = 201) =>
      /\ Has(keys, inflight[p].docId)
      /\ keys[inflight[p].docId].secret = inflight[p].response.body.secret

====
